---- MODULE Spec2Model ----
(***************************************************************************)
(* Employee evaluation web part: the data-access service                   *)
(* (EvaluationService) and the screens that call it.                       *)
(*                                                                         *)
(* Values.  An optional value (a field that may be undefined) is a         *)
(* sequence of length 0 or 1.  A string is the sequence of its characters, *)
(* so that toLowerCase is computed character by character.  An error       *)
(* message is the sequence of the text pieces it is concatenated from.     *)
(***************************************************************************)
EXTENDS Naturals, Sequences, FiniteSets, TLC

VARIABLES
    signedIn,   \* the user the hosting page is signed in as
    store,      \* the EvaluationAssignments list held by the backend
    responses,  \* the EvaluationResponses list held by the backend
    screen,     \* the component that is mounted
    form,       \* EvaluationForm: props and state
    sup,        \* SupervisorDashboard: state
    admin,      \* AdminDashboard: state
    act,        \* the user action in progress and its locals
    callLog,    \* the list writes and webhook POSTs the action has attempted
    alertMsg,   \* the text of the latest alert()
    app,        \* MainApp: state, and the role checks it awaits
    pc,         \* position of the running effect / handler
    attempt,    \* getCurrentUser: loop counter
    lastError,  \* getCurrentUser: message of the last caught error
    u,          \* getCurrentUser: outcome of the latest currentUser() call
    userCalls,  \* number of currentUser() calls made by this invocation
    waited,     \* milliseconds slept by this invocation of getCurrentUser
    ret,        \* getCurrentUser: where its caller resumes (ok) or catches (err)
    me,         \* the user getCurrentUser returned to its caller
    ids,        \* getPendingAssignmentsForUser: the ids the fallback reads
    items,      \* getPendingAssignmentsForUser: the fetched records
    fetchLog,   \* the list queries issued, in order
    thrown,     \* the error travelling to the dashboard's catch
    pending,    \* PendingAssignmentsDashboard state: pending
    loading,    \* PendingAssignmentsDashboard state: loading
    error,      \* PendingAssignmentsDashboard state: error
    selected,   \* PendingAssignmentsDashboard state: selected
    heap,       \* the objects and arrays allocated; an address is an index
    resolutions \* the record of each resolution of pending assignments

\* The objects behind the values, and the resolutions made on them.
resolveVars == <<heap, resolutions>>

\* The state of the components other than the pending dashboard.
screens == <<signedIn, responses, screen, form, sup, admin, act, callLog, alertMsg, app>>

\* What the pending dashboard and getCurrentUser leave alone.
rest == <<screens, resolveVars>>

\* The locals of getCurrentUser.
gcuVars == <<attempt, lastError, u, userCalls, waited, ret>>

\* The locals of getPendingAssignmentsForUser and the pending dashboard's state.
pendVars == <<ids, items, fetchLog, pending, loading, error, selected>>

vars == <<rest, store, pc, gcuVars, me, thrown, pendVars>>

-----------------------------------------------------------------------------
(* Optional values *)

None == <<>>

Some(v) == <<v>>

IsSome(o) == Len(o) > 0

Val(o) == o[1]

\* JavaScript truthiness of an optional string: defined and not "".
Truthy(o) == IsSome(o) /\ Len(Val(o)) > 0

-----------------------------------------------------------------------------
(* Strings *)

UpperLetters ==
    <<"A","B","C","D","E","F","G","H","I","J","K","L","M",
      "N","O","P","Q","R","S","T","U","V","W","X","Y","Z">>

LowerLetters ==
    <<"a","b","c","d","e","f","g","h","i","j","k","l","m",
      "n","o","p","q","r","s","t","u","v","w","x","y","z">>

LowerChar(c) ==
    IF \E k \in 1..Len(UpperLetters) : UpperLetters[k] = c
    THEN LowerLetters[CHOOSE k \in 1..Len(UpperLetters) : UpperLetters[k] = c]
    ELSE c

\* String.prototype.toLowerCase
toLowerCase(s) == [i \in 1..Len(s) |-> LowerChar(s[i])]

-----------------------------------------------------------------------------
(* The inputs the model draws from *)

MaxRecs == 3

JaneMixed == <<"J","a","n","e","@","C","o",".","c","o","m">>

JaneLower == <<"j","a","n","e","@","c","o",".","c","o","m">>

BobLower == <<"b","o","b","@","c","o",".","c","o","m">>

BobUpper == <<"B","O","B","@","C","O",".","C","O","M">>

StatusWords ==
    { <<>>,
      <<"I","n"," ","P","r","o","g","r","e","s","s">>,
      <<"C","o","m","p","l","e","t","e">>,
      <<"c","o","m","p","l","e","t","e","d">>,
      <<"C","L","O","S","E","D">>,
      <<"A","r","c","h","i","v","e","d">> }

\* A person field as the list returns it when expanded: absent, or a
\* record whose Id and EMail may each be missing.
RefPool ==
    { None,
      Some([Id |-> Some(11), EMail |-> None]),
      Some([Id |-> Some(11), EMail |-> Some(JaneLower)]),
      Some([Id |-> None,     EMail |-> Some(JaneLower)]),
      Some([Id |-> Some(12), EMail |-> Some(BobUpper)]) }

StatusPool == {None} \cup {Some(w) : w \in StatusWords}

\* Every raw record that may stand at position i of the list.
RawPool(i) ==
    [Id : {None, Some(i)},
     Status : StatusPool,
     SelfEvalSubmitted : {None},
     SupervisorSubmitted : {None},
     ReviewerSubmitted : {None},
     Employee : RefPool,
     Supervisor : RefPool,
     OptionalReviewer : RefPool]

\* The records that longer lists are built from: one that passes the three
\* filters for a caller, and one that fails each filter alone.
SmallPool(i) ==
    LET jane == Some([Id |-> Some(11), EMail |-> Some(JaneLower)])
        bob  == Some([Id |-> Some(12), EMail |-> Some(BobUpper)])
        rec(id, status, employee) ==
            [Id |-> id, Status |-> status, SelfEvalSubmitted |-> None,
             SupervisorSubmitted |-> None, ReviewerSubmitted |-> None,
             Employee |-> employee, Supervisor |-> None,
             OptionalReviewer |-> None]
    IN  { rec(Some(i), None, jane),
          rec(None, None, jane),
          rec(Some(i), None, bob),
          rec(Some(i), Some(<<"C","L","O","S","E","D">>), jane) }

RECURSIVE SmallLists(_)
\* The lists of n records of SmallPool.
SmallLists(n) ==
    IF n = 0 THEN {<<>>}
    ELSE {Append(s, r) : s \in SmallLists(n - 1), r \in SmallPool(n)}

\* Item ids are unique in a list: the record at position i has Id i, or none.
Stores ==
    {<<>>}
    \cup {<<r>> : r \in RawPool(1)}
    \cup UNION {SmallLists(n) : n \in 2..MaxRecs}

\* The users that may be signed in.
SignedInPool ==
    { [Id |-> Some(7), Email |-> Some(JaneMixed)],
      [Id |-> Some(8), Email |-> Some(BobLower)] }

\* What sp.web.currentUser() may return for a signed-in user: nothing, the
\* user without its Id, without its Email, or whole.
UserPool(who) ==
    { None,
      Some([who EXCEPT !.Id = None]),
      Some([who EXCEPT !.Email = Some(<<>>)]),
      Some(who) }

\* Messages of the errors the backend calls may reject with.
BackendErrors == { <<"Network request failed">> }

-----------------------------------------------------------------------------
(* EvaluationService.getCurrentUser *)

\* A call of getCurrentUser(): fresh locals; the caller resumes at okLabel
\* with the user, or at errLabel with the error.
CallGetCurrentUser(okLabel, errLabel) ==
    /\ attempt' = 0
    /\ lastError' = None
    /\ userCalls' = 0
    /\ waited' = 0
    /\ ret' = [ok |-> okLabel, err |-> errLabel]
    /\ pc' = "gcu_call"

maxRetries == 3

RetryBaseDelay == 250

\* Mutant: the Email test is left out of the validation.
UserIsComplete_NoEmailTest(usr) == IsSome(usr) /\ IsSome(Val(usr).Id)

\* if (u && typeof u.Id === 'number' && u.Email)
UserIsComplete(usr) ==
    IsSome(usr) /\ IsSome(Val(usr).Id) /\ Truthy(Val(usr).Email)

\* The message of the error thrown once the loop is exhausted.
UserErrorMessage(lastErr) ==
    <<"Unable to load current user information. Please refresh the page. ">>
    \o (IF IsSome(lastErr) THEN <<"Details: ">> \o Val(lastErr) ELSE <<>>)

\* await this.sp.web.currentUser() resolves with usr.
GetCurrentUser_Lookup ==
    /\ pc = "gcu_call"
    /\ attempt < maxRetries
    /\ \E usr \in UserPool(signedIn) : u' = [threw |-> FALSE, value |-> usr, message |-> <<>>]
    /\ userCalls' = userCalls + 1
    /\ pc' = "gcu_check"
    /\ UNCHANGED <<rest, store, attempt, lastError, waited, ret, me, ids, items, fetchLog,
                   thrown, pending, loading, error, selected>>

\* await this.sp.web.currentUser() rejects.
GetCurrentUser_LookupThrows ==
    /\ pc = "gcu_call"
    /\ attempt < maxRetries
    /\ \E m \in BackendErrors : u' = [threw |-> TRUE, value |-> None, message |-> m]
    /\ userCalls' = userCalls + 1
    /\ pc' = "gcu_check"
    /\ UNCHANGED <<rest, store, attempt, lastError, waited, ret, me, ids, items, fetchLog,
                   thrown, pending, loading, error, selected>>

\* The rest of the loop body: return a complete user, or record the error,
\* sleep unless this was the last attempt, and go round again.
GetCurrentUser_Check ==
    /\ pc = "gcu_check"
    /\ IF ~u.threw /\ UserIsComplete(u.value)
       THEN /\ me' = Some([Id |-> Val(Val(u.value).Id),
                           Email |-> Val(Val(u.value).Email)])
            /\ pc' = ret.ok
            /\ UNCHANGED <<attempt, lastError, waited>>
       ELSE /\ lastError' = IF u.threw THEN Some(u.message) ELSE lastError
            /\ waited' = IF attempt < maxRetries - 1
                            THEN waited + (2 ^ attempt) * RetryBaseDelay
                            ELSE waited
            /\ attempt' = attempt + 1
            /\ pc' = "gcu_call"
            /\ UNCHANGED me
    /\ UNCHANGED <<rest, store, u, userCalls, ret, ids, items, fetchLog, thrown, pending,
                   loading, error, selected>>

\* The loop is over without a return: throw.
GetCurrentUser_Throw ==
    /\ pc = "gcu_call"
    /\ ~(attempt < maxRetries)
    /\ thrown' = Some(UserErrorMessage(lastError))
    /\ pc' = ret.err
    /\ UNCHANGED <<rest, store, attempt, lastError, u, userCalls, waited, ret, me, ids, items,
                   fetchLog, pending, loading, error, selected>>

-----------------------------------------------------------------------------
(* EvaluationService.getPendingAssignmentsForUser: the passes over rawItems *)

TopLimit == 200

doneStatuses ==
    { <<"c","o","m","p","l","e","t","e">>,
      <<"c","o","m","p","l","e","t","e","d">>,
      <<"c","l","o","s","e","d">>,
      <<"a","r","c","h","i","v","e","d">> }

\* p && p.EMail && typeof p.Id === 'number' ? {Id, Email} : undefined
normalizeUser(p) ==
    IF IsSome(p) /\ Truthy(Val(p).EMail) /\ IsSome(Val(p).Id)
    THEN Some([Id |-> Val(Val(p).Id), Email |-> Val(Val(p).EMail)])
    ELSE None

\* Mutant: the Id check lets every record through.
HasNumericId_Always(it) == TRUE

\* First filter: typeof it.Id === 'number'
HasNumericId(it) == IsSome(it.Id)

\* ref && ref.EMail ? ref.EMail.toLowerCase() : undefined
LowerEmailOf(ref) ==
    IF IsSome(ref) /\ Truthy(Val(ref).EMail)
    THEN Some(toLowerCase(Val(Val(ref).EMail)))
    ELSE None

\* Mutant: a record with any employee email counts as the caller's.
IdentityMatch_AnyEmployee(it, meLower) ==
    \/ LowerEmailOf(it.Employee) # None
    \/ LowerEmailOf(it.Supervisor) = Some(meLower)
    \/ LowerEmailOf(it.OptionalReviewer) = Some(meLower)

\* Mutant: the identity filter is left out.
IdentityMatch_Omitted(it, meLower) == TRUE

\* Second filter: e === meLower || s === meLower || r === meLower
IdentityMatch(it, meLower) ==
    \/ LowerEmailOf(it.Employee) = Some(meLower)
    \/ LowerEmailOf(it.Supervisor) = Some(meLower)
    \/ LowerEmailOf(it.OptionalReviewer) = Some(meLower)

\* Mutant: the status is compared without lower-casing it.
StatusIsOpen_CaseSensitive(it) ==
    (IF Truthy(it.Status) THEN Val(it.Status) ELSE <<>>) \notin doneStatuses

\* Third filter: doneStatuses.indexOf((it.Status || "").toLowerCase()) === -1
StatusIsOpen(it) ==
    toLowerCase(IF Truthy(it.Status) THEN Val(it.Status) ELSE <<>>)
        \notin doneStatuses

\* Mutant: the supervisor test comes first.
RoleOf_SupervisorFirst(it, meLower) ==
    IF LowerEmailOf(it.Supervisor) = Some(meLower) THEN "Supervisor"
    ELSE IF LowerEmailOf(it.Employee) = Some(meLower) THEN "Employee"
    ELSE "Reviewer"

\* The role chosen in the map callback.
RoleOf(it, meLower) ==
    IF LowerEmailOf(it.Employee) = Some(meLower) THEN "Employee"
    ELSE IF LowerEmailOf(it.Supervisor) = Some(meLower) THEN "Supervisor"
    ELSE "Reviewer"

\* The object the map callback returns.
ToPending(it, meLower) ==
    [Id |-> it.Id,
     Status |-> it.Status,
     SelfEvalSubmitted |-> it.SelfEvalSubmitted,
     SupervisorSubmitted |-> it.SupervisorSubmitted,
     ReviewerSubmitted |-> it.ReviewerSubmitted,
     Employee |-> normalizeUser(it.Employee),
     Supervisor |-> normalizeUser(it.Supervisor),
     OptionalReviewer |-> normalizeUser(it.OptionalReviewer),
     MyRole |-> RoleOf(it, meLower)]

\* rawItems.filter(...).filter(...).filter(...); SelectSeq is
\* Array.prototype.filter.
Survivors(rawItems, meLower) ==
    LET withId == SelectSeq(rawItems, HasNumericId)
        mine   == SelectSeq(withId, LAMBDA it : IdentityMatch(it, meLower))
    IN  SelectSeq(mine, StatusIsOpen)

\* Mutant: the output comes out in reverse order.
ResolvePending_Reversed(rawItems, email) ==
    LET meLower == toLowerCase(email)
        open    == Survivors(rawItems, meLower)
    IN  [k \in 1..Len(open) |-> ToPending(open[Len(open) + 1 - k], meLower)]

\* return rawItems.filter(...).filter(...).filter(...).map(...)
\* with meLower = me.Email.toLowerCase()
ResolvePending(rawItems, email) ==
    LET meLower == toLowerCase(email)
        open    == Survivors(rawItems, meLower)
    IN  [k \in 1..Len(open) |-> ToPending(open[k], meLower)]

-----------------------------------------------------------------------------
(* getPendingAssignmentsForUser: the fetch, and the dashboard's load effect *)

\* The elements of s at the positions in I, in order.
Pick(s, I) ==
    LET at(k) == CHOOSE i \in I : Cardinality({j \in I : j < i}) = k - 1
    IN  [k \in 1..Cardinality(I) |-> s[at(k)]]

\* An entry of fetchLog: a request to the list, whether it resolved, and
\* with how many rows.
Request(kind, resolved, rows) == [kind |-> kind, ok |-> resolved, rows |-> rows]

\* The request awaited at each position of the fetch.
RequestAt(p) ==
    CASE p = "pend_query" -> "filtered"
      [] p = "pend_top" -> "top"
      [] OTHER -> "getById"

\* Mutant: a single row also triggers the fallback.
NeedsFallback_AtMostOne(rows) == Len(rows) <= 1

\* if (!items || items.length === 0)
NeedsFallback(rows) == Len(rows) = 0

\* items.top(200)()
Top(st) == SubSeq(st, 1, IF Len(st) < TopLimit THEN Len(st) ELSE TopLimit)

\* base.filter(b => typeof b.Id === 'number').map(b => b.Id)
NumericIds(base) ==
    LET kept == SelectSeq(base, LAMBDA b : IsSome(b.Id))
    IN  [k \in 1..Len(kept) |-> Val(kept[k].Id)]

\* items.getById(id).select(...).expand(...)()
GetById(st, id) == st[CHOOSE i \in DOMAIN st : st[i].Id = Some(id)]

\* The effect of PendingAssignmentsDashboard starts: setLoading(true),
\* setError(undefined), and getPendingAssignmentsForUser calls getCurrentUser.
Load_Start ==
    /\ pc = "mount"
    /\ loading' = TRUE
    /\ error' = None
    /\ CallGetCurrentUser("pend_query", "dash_catch")
    /\ UNCHANGED <<rest, store, u, me, ids, items, fetchLog, thrown, pending, selected>>

\* The server-filtered query resolves.  The list evaluates the filter on
\* expanded person fields unreliably: any rows of the list, in list order,
\* may come back.
Pending_FilteredQuery ==
    /\ pc = "pend_query"
    /\ \E I \in SUBSET DOMAIN store :
          /\ items' = Pick(store, I)
          /\ pc' = IF NeedsFallback(Pick(store, I)) THEN "pend_top" ELSE "pend_resolve"
    /\ fetchLog' = Append(fetchLog, Request("filtered", TRUE, Len(items')))
    /\ UNCHANGED <<rest, store, attempt, lastError, u, userCalls, waited, ret, me,
                   ids, thrown, pending, loading, error, selected>>

\* Fallback: items.top(200)() resolves; the numeric ids are kept.
Pending_FallbackTop ==
    /\ pc = "pend_top"
    /\ ids' = NumericIds(Top(store))
    /\ fetchLog' = Append(fetchLog, Request("top", TRUE, Len(Top(store))))
    /\ pc' = "pend_getById"
    /\ UNCHANGED <<rest, store, attempt, lastError, u, userCalls, waited, ret, me,
                   items, thrown, pending, loading, error, selected>>

\* Fallback: Promise.all of one getById per id resolves.
Pending_FallbackGetById ==
    /\ pc = "pend_getById"
    /\ items' = [k \in 1..Len(ids) |-> GetById(store, ids[k])]
    /\ fetchLog' = fetchLog \o [k \in 1..Len(ids) |-> Request("getById", TRUE, 1)]
    /\ pc' = "pend_resolve"
    /\ UNCHANGED <<rest, store, attempt, lastError, u, userCalls, waited, ret, me,
                   ids, thrown, pending, loading, error, selected>>

\* Mutant: the fallback's Promise.all also rejects when there is no id to
\* read.
Pending_FetchThrows_OnNoIds ==
    /\ pc \in {"pend_query", "pend_top", "pend_getById"}
    /\ \E m \in BackendErrors : thrown' = Some(m)
    /\ fetchLog' = Append(fetchLog, Request(RequestAt(pc), FALSE, 0))
    /\ pc' = "dash_catch"
    /\ UNCHANGED <<rest, store, attempt, lastError, u, userCalls, waited, ret, me,
                   ids, items, pending, loading, error, selected>>

\* One of the list requests rejects: the error leaves
\* getPendingAssignmentsForUser.
Pending_FetchThrows ==
    /\ \/ pc \in {"pend_query", "pend_top"}
       \/ pc = "pend_getById" /\ Len(ids) > 0
    /\ \E m \in BackendErrors : thrown' = Some(m)
    /\ fetchLog' = Append(fetchLog, Request(RequestAt(pc), FALSE, 0))
    /\ pc' = "dash_catch"
    /\ UNCHANGED <<rest, store, attempt, lastError, u, userCalls, waited, ret, me,
                   ids, items, pending, loading, error, selected>>

\* getPendingAssignmentsForUser returns the resolved list; the effect does
\* setPending(items) and, in finally, setLoading(false).
Load_SetPending ==
    /\ pc = "pend_resolve"
    /\ pending' = ResolvePending(items, Val(me).Email)
    /\ loading' = FALSE
    /\ pc' = "settled"
    /\ UNCHANGED <<rest, store, attempt, lastError, u, userCalls, waited, ret, me,
                   ids, items, fetchLog, thrown, error, selected>>

\* Mutant: the catch swallows the error.
Load_Catch_Swallowed ==
    /\ pc = "dash_catch"
    /\ error' = None
    /\ loading' = FALSE
    /\ pc' = "settled"
    /\ UNCHANGED <<rest, store, attempt, lastError, u, userCalls, waited, ret, me,
                   ids, items, fetchLog, thrown, pending, selected>>

\* catch: setError(e.message); finally: setLoading(false).
Load_Catch ==
    /\ pc = "dash_catch"
    /\ error' = thrown
    /\ loading' = FALSE
    /\ pc' = "settled"
    /\ UNCHANGED <<rest, store, attempt, lastError, u, userCalls, waited, ret, me,
                   ids, items, fetchLog, thrown, pending, selected>>

\* What PendingAssignmentsDashboard renders.
View ==
    IF loading THEN "loading"
    ELSE IF Truthy(error) THEN "error"
    ELSE IF IsSome(selected)
         THEN (IF IsSome(Val(selected).Id) /\ Val(Val(selected).Id) # 0
               THEN "form" ELSE "invalid")
    ELSE "list"

\* The rows of the pending list that are rendered: a numeric Id, and not yet
\* submitted by the role the user has on the row.
Listed ==
    SelectSeq(SelectSeq(pending, LAMBDA a : IsSome(a.Id)),
              LAMBDA a : /\ ~(a.MyRole = "Employee" /\ a.SelfEvalSubmitted = Some(TRUE))
                         /\ ~(a.MyRole = "Supervisor" /\ a.SupervisorSubmitted = Some(TRUE))
                         /\ ~(a.MyRole = "Reviewer" /\ a.ReviewerSubmitted = Some(TRUE)))

\* The Open button of a listed row: setSelected(a).
Open ==
    /\ pc = "settled"
    /\ View = "list"
    /\ \E k \in DOMAIN Listed : selected' = Some(Listed[k])
    /\ UNCHANGED <<rest, store, pc, attempt, lastError, u, userCalls, waited, ret, me,
                   ids, items, fetchLog, thrown, pending, loading, error>>

\* The Back button: setSelected(undefined).
Back ==
    /\ pc = "settled"
    /\ View \in {"form", "invalid"}
    /\ selected' = None
    /\ UNCHANGED <<rest, store, pc, attempt, lastError, u, userCalls, waited, ret, me,
                   ids, items, fetchLog, thrown, pending, loading, error>>

-----------------------------------------------------------------------------
(* The pending dashboard, from mount *)

\* The components that are not mounted, and an idle backend of responses.
NoForm ==
    [assignmentId |-> 0, reviewerType |-> "Employee", response |-> None,
     responseId |-> None, saving |-> FALSE, loading |-> TRUE, err |-> None,
     categoryIdx |-> 0]

NoSup == [assignments |-> <<>>, loading |-> TRUE, error |-> None, updatingId |-> None]

NoAdmin ==
    [assignments |-> <<>>, loading |-> TRUE, error |-> None,
     webhookUrl |-> <<>>, showWebhookInput |-> FALSE, sendingReminders |-> FALSE,
     goLiveWebhookUrl |-> <<>>, showGoLiveWebhookInput |-> FALSE, sendingGoLive |-> FALSE,
     showRejectDialog |-> FALSE, selectedAssignment |-> None, rejectionReason |-> <<>>,
     rejectEmployee |-> FALSE, rejectSupervisor |-> FALSE, rejectReviewer |-> FALSE,
     sendingRejection |-> FALSE,
     searchTerm |-> <<>>, statusFilter |-> <<"A","l","l">>, submissionFilter |-> "All"]

\* A role check of MainApp that has not been started.
NotStarted == [state |-> "idle", value |-> FALSE]

\* MainApp before its effect has run.
NoApp ==
    [currentView |-> "pending", isSupervisor |-> FALSE, isAdmin |-> FALSE,
     isDepartmentManager |-> FALSE, checkingSupervisor |-> TRUE,
     supervisorCheck |-> NotStarted, adminCheck |-> NotStarted,
     managerCheck |-> NotStarted]

NoneRejected == [employee |-> FALSE, supervisor |-> FALSE, reviewer |-> FALSE]

NoAct ==
    [name |-> "none", submit |-> FALSE, target |-> 0, reviewer |-> 0,
     rejected |-> NoneRejected, resume |-> "idle"]

Init ==
    /\ signedIn \in SignedInPool
    /\ responses = <<>>
    /\ screen = "pending"
    /\ form = NoForm
    /\ sup = NoSup
    /\ admin = NoAdmin
    /\ act = NoAct
    /\ callLog = <<>>
    /\ alertMsg = None
    /\ app = NoApp
    /\ heap = <<>>
    /\ resolutions = <<>>
    /\ store \in Stores
    /\ pc = "mount"
    /\ attempt = 0
    /\ lastError = None
    /\ u = [threw |-> FALSE, value |-> None, message |-> <<>>]
    /\ userCalls = 0
    /\ waited = 0
    /\ ret = [ok |-> "mount", err |-> "mount"]
    /\ me = None
    /\ ids = <<>>
    /\ items = <<>>
    /\ fetchLog = <<>>
    /\ thrown = None
    /\ pending = <<>>
    /\ loading = TRUE
    /\ error = None
    /\ selected = None

Next ==
    \/ Load_Start
    \/ GetCurrentUser_Lookup
    \/ GetCurrentUser_LookupThrows
    \/ GetCurrentUser_Check
    \/ GetCurrentUser_Throw
    \/ Pending_FilteredQuery
    \/ Pending_FallbackTop
    \/ Pending_FallbackGetById
    \/ Pending_FetchThrows
    \/ Load_SetPending
    \/ Load_Catch
    \/ Open
    \/ Back

Spec == Init /\ [][Next]_vars

-----------------------------------------------------------------------------
(* The user actions: what the lists hold, and the calls an action makes.   *)
(* A handler is followed from its click to its end, one await at a time;   *)
(* one effect or handler is in flight at a time.                           *)

CarolLower == <<"c","a","r","o","l","@","c","o",".","c","o","m">>

\* The people the lists' person fields refer to, as the backend expands them.
JaneRef == Some([Id |-> Some(7), EMail |-> Some(JaneLower)])

BobRef == Some([Id |-> Some(8), EMail |-> Some(BobLower)])

CarolRef == Some([Id |-> Some(13), EMail |-> Some(CarolLower)])

Directory == {JaneRef, BobRef, CarolRef}

\* The person a lookup id written to a person field resolves to.
PersonById(id) == CHOOSE p \in Directory : Val(p).Id = Some(id)

InProgress == <<"I","n"," ","P","r","o","g","r","e","s","s">>

ReviewerTypes == {"Employee", "Supervisor", "Reviewer"}

\* The most response records the responses list is let grow to.
MaxResponses == 2

\* An item of the assignments list with every field the queries select.
AssignmentItem(status, self, supv, rev, optional, proposed) ==
    [Id |-> Some(1), Status |-> status,
     SelfEvalSubmitted |-> Some(self), SupervisorSubmitted |-> Some(supv),
     ReviewerSubmitted |-> Some(rev),
     Employee |-> BobRef, Supervisor |-> JaneRef,
     OptionalReviewer |-> optional, ProposedReviewer |-> proposed,
     SendOptionalEmail |-> None]

\* The assignments list of the user actions: one assignment, supervised by
\* the first user of the directory, at the stages of its life.
ActionStores ==
    { <<AssignmentItem(None, FALSE, FALSE, FALSE, None, None)>>,
      <<AssignmentItem(None, FALSE, FALSE, FALSE, None, CarolRef)>>,
      <<AssignmentItem(Some(InProgress), TRUE, FALSE, FALSE, CarolRef, CarolRef)>>,
      <<AssignmentItem(Some(InProgress), TRUE, TRUE, FALSE, CarolRef, CarolRef)>>,
      <<AssignmentItem(Some(InProgress), TRUE, TRUE, TRUE, CarolRef, CarolRef)>>,
      <<AssignmentItem(Some(InProgress), TRUE, TRUE, FALSE, None, None)>> }

\* The lists an evaluation form is opened on.
FormStores ==
    { <<AssignmentItem(None, FALSE, FALSE, FALSE, None, None)>>,
      <<AssignmentItem(Some(InProgress), TRUE, TRUE, FALSE, CarolRef, CarolRef)>> }

\* A record of the responses list.
ResponseItem(id, assignmentId, reviewerType, reviewerId, submittedDate) ==
    [Id |-> id, AssignmentIDId |-> assignmentId, ReviewerType |-> reviewerType,
     ReviewerName |-> PersonById(reviewerId), SubmittedDate |-> submittedDate]

\* One write or webhook POST an action has attempted, and how it ended.
\* (status is the status code of the HTTP response a POST was answered with,
\* 0 where there is none.)
Attempt(call, ok) == [call |-> call, ok |-> ok, error |-> <<>>, status |-> 0]

\* An attempted call that failed with the error message msg.
FailedAttempt(call, msg) == [call |-> call, ok |-> FALSE, error |-> msg, status |-> 0]

\* The attempt a, answered with an HTTP response of the given status.
Answered(a, status) == [a EXCEPT !.status = status]

\* A handler is entered: its locals, and an empty list of attempted calls.
Begin(name, submit, target, reviewer, rejected, resume) ==
    /\ act' = [name |-> name, submit |-> submit, target |-> target,
               reviewer |-> reviewer, rejected |-> rejected, resume |-> resume]
    /\ callLog' = <<>>

\* An awaited call rejects with an error the handler at label catches.
Rejects(label) ==
    /\ \E m \in BackendErrors : thrown' = Some(m)
    /\ pc' = label

\* An awaited write or POST rejects: the attempt is noted with its error,
\* which the handler at label catches.
Fails(call, label) ==
    \E m \in BackendErrors :
        /\ callLog' = Append(callLog, FailedAttempt(call, m))
        /\ thrown' = Some(m)
        /\ pc' = label

\* items.getById(id).update(payload): the fields of the payload replace the
\* item's, the others stay.
Merge(item, payload) ==
    [f \in DOMAIN item |-> IF f \in DOMAIN payload THEN payload[f] ELSE item[f]]

UpdateById(list, id, payload) ==
    [i \in DOMAIN list |->
        IF list[i].Id = Some(id) THEN Merge(list[i], payload) ELSE list[i]]

\* mapUser / normalizeUser of getAssignment, getAssignmentsWhereSupervisor
\* and getAllAssignments, and the item they return.
ToAssignment(it) ==
    [Id |-> it.Id, Status |-> it.Status,
     SelfEvalSubmitted |-> it.SelfEvalSubmitted,
     SupervisorSubmitted |-> it.SupervisorSubmitted,
     ReviewerSubmitted |-> it.ReviewerSubmitted,
     Employee |-> normalizeUser(it.Employee),
     Supervisor |-> normalizeUser(it.Supervisor),
     OptionalReviewer |-> normalizeUser(it.OptionalReviewer),
     ProposedReviewer |-> normalizeUser(it.ProposedReviewer)]

\* The filter of getMyResponse and of createResponse's query.
ResponseMatches(r, assignmentId, reviewerType, email) ==
    /\ r.AssignmentIDId = assignmentId
    /\ r.ReviewerType = reviewerType
    /\ toLowerCase(Val(Val(r.ReviewerName).EMail)) = toLowerCase(email)

MyResponses(assignmentId, reviewerType, email) ==
    SelectSeq(responses,
              LAMBDA r : ResponseMatches(r, assignmentId, reviewerType, email))

\* The next item id of the responses list.
NextResponseId == Len(responses) + 1

\* What no user action touches, and what one touches only by calling
\* getCurrentUser.
fixed == <<signedIn, screen, me, pendVars, app, resolveVars>>

gcuLocals == <<attempt, lastError, u, userCalls, waited, ret>>

\* No lookup has been made.
NoLookup == [threw |-> FALSE, value |-> None, message |-> <<>>]

\* getCurrentUser has returned or thrown to its caller: its locals are gone.
DropFrame ==
    /\ attempt' = 0
    /\ lastError' = None
    /\ u' = NoLookup
    /\ userCalls' = 0
    /\ waited' = 0
    /\ ret' = [ok |-> "idle", err |-> "idle"]

-----------------------------------------------------------------------------
(* EvaluationForm: the init effect *)

\* CATEGORIES.length
NumCategories == 6

\* The effect runs for a valid assignmentId: getCurrentUser is awaited first.
\* (getCurrentUser returns only users with a numeric Id, so the effect's own
\* check of me never throws.)
Form_Init ==
    /\ screen = "form"
    /\ pc = "form_mount"
    /\ form.assignmentId # 0
    /\ form' = [form EXCEPT !.loading = TRUE, !.err = None]
    /\ CallGetCurrentUser("form_init_assignment", "form_init_catch")
    /\ UNCHANGED <<fixed, u, store, responses, sup, admin, act, callLog, alertMsg, thrown>>

\* await svc.getAssignment(assignmentId): the item comes back, or the call rejects.
Form_InitGetAssignment ==
    /\ pc = "form_init_assignment"
    /\ \/ /\ \E i \in DOMAIN store : store[i].Id = Some(form.assignmentId)
          /\ pc' = "form_init_response"
          /\ UNCHANGED thrown
       \/ Rejects("form_init_catch")
    /\ DropFrame
    /\ UNCHANGED <<fixed, store, responses, form, sup, admin, act, callLog, alertMsg>>

\* await svc.getMyResponse(...): an existing response is loaded, or an empty
\* one is initialised; then setCategoryIdx(0) and the finally block.
Form_InitGetMyResponse ==
    /\ pc = "form_init_response"
    /\ \/ /\ LET found == MyResponses(form.assignmentId, form.reviewerType, Val(me).Email)
             IN form' = [form EXCEPT
                    !.response = IF found # <<>> THEN Some([Id |-> Some(found[1].Id)])
                                 ELSE Some([Id |-> None]),
                    !.responseId = IF found # <<>> THEN Some(found[1].Id) ELSE None,
                    !.categoryIdx = 0,
                    !.loading = FALSE]
          /\ pc' = "idle"
          /\ UNCHANGED thrown
       \/ /\ Rejects("form_init_catch")
          /\ UNCHANGED form
    /\ UNCHANGED <<fixed, gcuLocals, store, responses, sup, admin, act, callLog, alertMsg>>

\* catch: setErr(msg); finally: setLoading(false).
Form_InitCatch ==
    /\ pc = "form_init_catch"
    /\ form' = [form EXCEPT !.err = thrown, !.loading = FALSE]
    /\ thrown' = None
    /\ pc' = "idle"
    /\ DropFrame
    /\ UNCHANGED <<fixed, store, responses, sup, admin, act, callLog, alertMsg>>

\* The form proper is rendered, with its navigation and buttons.
FormRendered ==
    /\ screen = "form"
    /\ ~form.loading
    /\ ~Truthy(form.err)
    /\ IsSome(form.response)

isLastCategory == form.categoryIdx >= NumCategories - 1

\* A category of the navigation is clicked: setCategoryIdx(i).
Form_SelectCategory ==
    /\ FormRendered
    /\ \E i \in 0 .. NumCategories - 1 :
          /\ i # form.categoryIdx
          /\ form' = [form EXCEPT !.categoryIdx = i]
    /\ UNCHANGED <<fixed, gcuLocals, store, responses, sup, admin, act, callLog, alertMsg,
                   thrown, pc>>

\* Mutant: the Next Section button is not disabled while saving.
Form_NextSection_WhileSaving ==
    /\ FormRendered
    /\ ~isLastCategory
    /\ form' = [form EXCEPT !.categoryIdx = form.categoryIdx + 1]
    /\ UNCHANGED <<fixed, gcuLocals, store, responses, sup, admin, act, callLog, alertMsg,
                   thrown, pc>>

\* The Next Section button: setCategoryIdx(categoryIdx + 1).
Form_NextSection ==
    /\ FormRendered
    /\ ~isLastCategory
    /\ ~form.saving
    /\ form' = [form EXCEPT !.categoryIdx = form.categoryIdx + 1]
    /\ UNCHANGED <<fixed, gcuLocals, store, responses, sup, admin, act, callLog, alertMsg,
                   thrown, pc>>

-----------------------------------------------------------------------------
(* EvaluationForm.onSave *)

\* The Save button (submit = FALSE) or, in the last category, the Submit
\* button (submit = TRUE): setSaving(true), the payload is built, and either
\* the creation of a record starts with getCurrentUser or the update is issued.
onSave(submit) ==
    /\ FormRendered
    /\ pc = "idle"
    /\ ~form.saving
    /\ submit => isLastCategory
    /\ form' = [form EXCEPT !.saving = TRUE]
    /\ Begin(IF submit THEN "submit" ELSE "save", submit, form.assignmentId, 0, NoneRejected, "idle")
    /\ IF ~IsSome(form.responseId)
       THEN /\ Len(responses) < MaxResponses
            /\ CallGetCurrentUser("save_assignment", "save_catch")
            /\ UNCHANGED u
       ELSE /\ pc' = "save_update"
            /\ UNCHANGED gcuLocals
    /\ UNCHANGED <<fixed, store, responses, sup, admin, alertMsg, thrown>>

Save_Click == onSave(FALSE)

Submit_Click == onSave(TRUE)

\* await svc.getAssignment(assignmentId) of the creation branch.
Save_GetAssignment ==
    /\ pc = "save_assignment"
    /\ \/ /\ \E i \in DOMAIN store : store[i].Id = Some(form.assignmentId)
          /\ pc' = "create_add"
          /\ UNCHANGED thrown
       \/ Rejects("save_catch")
    /\ DropFrame
    /\ UNCHANGED <<fixed, store, responses, form, sup, admin, act, callLog, alertMsg>>

\* createResponse: await items.add(payload).  The record is added and the
\* current user is looked up next, or the add rejects.
createResponse_Add ==
    /\ pc = "create_add"
    /\ \/ /\ responses' = Append(responses,
                ResponseItem(NextResponseId, form.assignmentId, form.reviewerType,
                             Val(me).Id,
                             IF act.submit THEN Some("now") ELSE None))
          /\ callLog' = Append(callLog, Attempt("responses.add", TRUE))
          /\ CallGetCurrentUser("create_query", "create_catch")
          /\ UNCHANGED <<u, thrown>>
       \/ /\ Fails("responses.add", "create_catch")
          /\ UNCHANGED <<responses, gcuLocals>>
    /\ UNCHANGED <<fixed, store, form, sup, admin, act, alertMsg>>

\* createResponse: after the 500 ms pause, the query for the created record.
\* The list may not have indexed the new record yet, so the first match or
\* nothing comes back; a found record is returned to onSave, which keeps its
\* Id and goes on to markSubmitted or to the alert.
createResponse_Query ==
    /\ pc = "create_query"
    /\ LET found == MyResponses(form.assignmentId, form.reviewerType, Val(me).Email)
       IN \/ /\ found # <<>>
             /\ form' = [form EXCEPT !.responseId = Some(found[1].Id),
                                     !.response = Some([Id |-> Some(found[1].Id)])]
             /\ pc' = IF act.submit THEN "save_mark" ELSE "save_done"
             /\ UNCHANGED thrown
          \/ /\ thrown' = Some(<<"Created response not found after creation">>)
             /\ pc' = "create_catch"
             /\ UNCHANGED form
          \/ /\ Rejects("create_catch")
             /\ UNCHANGED form
    /\ DropFrame
    /\ UNCHANGED <<fixed, store, responses, sup, admin, act, callLog, alertMsg>>

\* createResponse's catch: the error is wrapped and thrown on to onSave.
createResponse_Catch ==
    /\ pc = "create_catch"
    /\ thrown' = Some(<<"Create response failed: ">> \o Val(thrown))
    /\ pc' = "save_catch"
    /\ DropFrame
    /\ UNCHANGED <<fixed, store, responses, form, sup, admin, act, callLog, alertMsg>>

\* Mutant: a rejected update is issued once more before the error is thrown.
updateResponse_Retrying ==
    /\ pc = "save_update"
    /\ \/ /\ responses' =
                [i \in DOMAIN responses |->
                    IF responses[i].Id = Val(form.responseId) /\ act.submit
                    THEN [responses[i] EXCEPT !.SubmittedDate = Some("now")]
                    ELSE responses[i]]
          /\ callLog' = Append(callLog, Attempt("responses.update", TRUE))
          /\ pc' = IF act.submit THEN "save_mark" ELSE "save_done"
          /\ UNCHANGED thrown
       \/ /\ Fails("responses.update", IF callLog = <<>> THEN "save_update" ELSE "save_catch")
          /\ UNCHANGED responses
    /\ UNCHANGED <<fixed, gcuLocals, store, form, sup, admin, act, alertMsg>>

\* Mutant: a rejected update is swallowed and the handler goes on.
updateResponse_Swallowing ==
    /\ pc = "save_update"
    /\ \/ /\ responses' =
                [i \in DOMAIN responses |->
                    IF responses[i].Id = Val(form.responseId) /\ act.submit
                    THEN [responses[i] EXCEPT !.SubmittedDate = Some("now")]
                    ELSE responses[i]]
          /\ callLog' = Append(callLog, Attempt("responses.update", TRUE))
          /\ pc' = IF act.submit THEN "save_mark" ELSE "save_done"
          /\ UNCHANGED thrown
       \/ /\ \E m \in BackendErrors :
                callLog' = Append(callLog, FailedAttempt("responses.update", m))
          /\ pc' = IF act.submit THEN "save_mark" ELSE "save_done"
          /\ UNCHANGED <<responses, thrown>>
    /\ UNCHANGED <<fixed, gcuLocals, store, form, sup, admin, act, alertMsg>>

\* await svc.updateResponse(currentResponseId, payload).
updateResponse ==
    /\ pc = "save_update"
    /\ \/ /\ responses' =
                [i \in DOMAIN responses |->
                    IF responses[i].Id = Val(form.responseId) /\ act.submit
                    THEN [responses[i] EXCEPT !.SubmittedDate = Some("now")]
                    ELSE responses[i]]
          /\ callLog' = Append(callLog, Attempt("responses.update", TRUE))
          /\ pc' = IF act.submit THEN "save_mark" ELSE "save_done"
          /\ UNCHANGED thrown
       \/ /\ Fails("responses.update", "save_catch")
          /\ UNCHANGED responses
    /\ UNCHANGED <<fixed, gcuLocals, store, form, sup, admin, act, alertMsg>>

\* Mutant: every submission flag is set, whatever the role.
SubmittedPayload_AllFlags(role) ==
    [SelfEvalSubmitted |-> Some(TRUE), SupervisorSubmitted |-> Some(TRUE),
     ReviewerSubmitted |-> Some(TRUE), Status |-> Some(InProgress)]

\* The payload of markSubmitted(assignmentId, role).
SubmittedPayload(role) ==
    IF role = "Employee"
    THEN [SelfEvalSubmitted |-> Some(TRUE), Status |-> Some(InProgress)]
    ELSE IF role = "Supervisor"
    THEN [SupervisorSubmitted |-> Some(TRUE), Status |-> Some(InProgress)]
    ELSE IF role = "Reviewer"
    THEN [ReviewerSubmitted |-> Some(TRUE), Status |-> Some(InProgress)]
    ELSE [Status |-> Some(InProgress)]

\* if (submit) await svc.markSubmitted(assignmentId, rt).
markSubmitted ==
    /\ pc = "save_mark"
    /\ \/ /\ store' = UpdateById(store, form.assignmentId, SubmittedPayload(form.reviewerType))
          /\ callLog' = Append(callLog, Attempt("assignments.update", TRUE))
          /\ pc' = "save_done"
          /\ UNCHANGED thrown
       \/ /\ Fails("assignments.update", "save_catch")
          /\ UNCHANGED store
    /\ UNCHANGED <<fixed, gcuLocals, responses, form, sup, admin, act, alertMsg>>

\* alert(submit ? "Submitted!" : "Saved"), then finally: setSaving(false).
Save_Done ==
    /\ pc = "save_done"
    /\ alertMsg' = Some(IF act.submit THEN <<"Submitted!">> ELSE <<"Saved">>)
    /\ form' = [form EXCEPT !.saving = FALSE]
    /\ act' = NoAct
    /\ callLog' = <<>>
    /\ pc' = "idle"
    /\ UNCHANGED <<fixed, gcuLocals, store, responses, sup, admin, thrown>>

\* catch: alert(msg), then finally: setSaving(false).
Save_Catch ==
    /\ pc = "save_catch"
    /\ alertMsg' = thrown
    /\ form' = [form EXCEPT !.saving = FALSE]
    /\ thrown' = None
    /\ act' = NoAct
    /\ callLog' = <<>>
    /\ pc' = "idle"
    /\ DropFrame
    /\ UNCHANGED <<fixed, store, responses, sup, admin>>

-----------------------------------------------------------------------------
(* SupervisorDashboard *)

\* loadAssignments starts: setLoading(true), setError(undefined), and
\* getAssignmentsWhereSupervisor awaits getCurrentUser.
Sup_LoadStart ==
    /\ sup' = [sup EXCEPT !.loading = TRUE, !.error = None]
    /\ CallGetCurrentUser("sup_query", "sup_load_catch")
    /\ UNCHANGED u

\* The mount effect.
Sup_Mount ==
    /\ screen = "supervisor"
    /\ pc = "sup_mount"
    /\ Sup_LoadStart
    /\ UNCHANGED <<fixed, store, responses, form, admin, act, callLog, alertMsg, thrown>>

\* The rows the list returns for the filter Supervisor/EMail eq emailLower.
SupervisedBy(emailLower) ==
    SelectSeq(store, LAMBDA it : /\ IsSome(it.Supervisor)
                                 /\ LowerEmailOf(it.Supervisor) = Some(emailLower))

\* getAssignmentsWhereSupervisor: the query resolves and the rows with a
\* numeric Id are mapped; setAssignments, then finally setLoading(false).
Sup_Query ==
    /\ pc = "sup_query"
    /\ \/ /\ LET rows == SupervisedBy(toLowerCase(Val(me).Email))
                 kept == SelectSeq(rows, LAMBDA it : IsSome(it.Id))
             IN sup' = [sup EXCEPT
                    !.assignments = [i \in DOMAIN kept |-> ToAssignment(kept[i])],
                    !.loading = FALSE]
          /\ pc' = act.resume
          /\ UNCHANGED thrown
       \/ /\ Rejects("sup_load_catch")
          /\ UNCHANGED sup
    /\ DropFrame
    /\ UNCHANGED <<fixed, store, responses, form, admin, act, callLog, alertMsg>>

\* loadAssignments' catch: setError(msg); finally: setLoading(false).  The
\* error does not leave loadAssignments.
Sup_LoadCatch ==
    /\ pc = "sup_load_catch"
    /\ sup' = [sup EXCEPT !.error = thrown, !.loading = FALSE]
    /\ thrown' = None
    /\ pc' = act.resume
    /\ DropFrame
    /\ UNCHANGED <<fixed, store, responses, form, admin, act, callLog, alertMsg>>

\* Mutant: every assignment with a proposed reviewer gets a card.
Sup_Listed_Proposed ==
    IF screen # "supervisor" \/ sup.loading \/ Truthy(sup.error) THEN <<>>
    ELSE SelectSeq(sup.assignments,
            LAMBDA a : /\ IsSome(a.Id)
                       /\ IsSome(a.ProposedReviewer)
                       /\ Val(a.ProposedReviewer).Id # 0)

\* The cards the dashboard renders: a proposed reviewer that is not the
\* optional reviewer.
Sup_Listed ==
    IF screen # "supervisor" \/ sup.loading \/ Truthy(sup.error) THEN <<>>
    ELSE SelectSeq(sup.assignments,
            LAMBDA a : /\ IsSome(a.Id)
                       /\ IsSome(a.ProposedReviewer)
                       /\ Val(a.ProposedReviewer).Id # 0
                       /\ (IsSome(a.OptionalReviewer) =>
                             Val(a.ProposedReviewer).Id # Val(a.OptionalReviewer).Id))

\* The Add Additional Reviewer button of a card, confirmed:
\* setUpdatingId(assignmentId), then the write is issued.
handleAddOptionalApprover ==
    /\ pc = "idle"
    /\ \E k \in DOMAIN Sup_Listed :
          LET a == Sup_Listed[k]
          IN /\ sup.updatingId # Some(Val(a.Id))
             /\ sup' = [sup EXCEPT !.updatingId = Some(Val(a.Id))]
             /\ Begin("addOptionalApprover", FALSE, Val(a.Id),
                      Val(a.ProposedReviewer).Id, NoneRejected, "add_done")
    /\ pc' = "add_write"
    /\ UNCHANGED <<fixed, gcuLocals, store, responses, form, admin, alertMsg, thrown>>

\* await svc.addOptionalApprover(assignmentId, proposedReviewerId); on
\* success loadAssignments is awaited next.
addOptionalApprover ==
    /\ pc = "add_write"
    /\ \/ /\ store' = UpdateById(store, act.target,
                        [OptionalReviewer |-> PersonById(act.reviewer),
                         SendOptionalEmail |-> Some(TRUE)])
          /\ callLog' = Append(callLog, Attempt("assignments.update", TRUE))
          /\ Sup_LoadStart
          /\ UNCHANGED thrown
       \/ /\ Fails("assignments.update", "add_catch")
          /\ UNCHANGED <<store, sup, gcuLocals>>
    /\ UNCHANGED <<fixed, responses, form, admin, act, alertMsg>>

\* alert("Optional approver added successfully."); finally: setUpdatingId(undefined).
Add_Done ==
    /\ pc = "add_done"
    /\ alertMsg' = Some(<<"Optional approver added successfully.">>)
    /\ sup' = [sup EXCEPT !.updatingId = None]
    /\ act' = NoAct
    /\ callLog' = <<>>
    /\ pc' = "idle"
    /\ UNCHANGED <<fixed, gcuLocals, store, responses, form, admin, thrown>>

\* catch: alert(`Error: ${msg}`); finally: setUpdatingId(undefined).
Add_Catch ==
    /\ pc = "add_catch"
    /\ alertMsg' = Some(<<"Error: ">> \o Val(thrown))
    /\ sup' = [sup EXCEPT !.updatingId = None]
    /\ thrown' = None
    /\ act' = NoAct
    /\ callLog' = <<>>
    /\ pc' = "idle"
    /\ UNCHANGED <<fixed, gcuLocals, store, responses, form, admin>>

-----------------------------------------------------------------------------
(* AdminDashboard *)

\* A submission flag that is set.
IsTrue(flag) == flag = Some(TRUE)

\* loadAssignments starts: setLoading(true), setError(undefined), and
\* getAllAssignments is awaited.
Admin_LoadStart ==
    /\ admin' = [admin EXCEPT !.loading = TRUE, !.error = None]
    /\ pc' = "admin_query"

\* The mount effect.
Admin_Mount ==
    /\ screen = "admin"
    /\ pc = "admin_mount"
    /\ Admin_LoadStart
    /\ UNCHANGED <<fixed, gcuLocals, store, responses, form, sup, act, callLog, alertMsg, thrown>>

\* The Retry button of the error view.
Admin_Retry ==
    /\ screen = "admin"
    /\ pc = "idle"
    /\ ~admin.loading
    /\ Truthy(admin.error)
    /\ Admin_LoadStart
    /\ UNCHANGED <<fixed, gcuLocals, store, responses, form, sup, act, callLog, alertMsg, thrown>>

\* getAllAssignments resolves: every row with a numeric Id, mapped;
\* setAssignments, then finally setLoading(false).  Or it rejects:
\* setError(msg), setLoading(false).  The error does not leave loadAssignments.
Admin_Query ==
    /\ pc = "admin_query"
    /\ \/ /\ LET kept == SelectSeq(store, LAMBDA it : IsSome(it.Id))
             IN admin' = [admin EXCEPT
                    !.assignments = [i \in DOMAIN kept |-> ToAssignment(kept[i])],
                    !.loading = FALSE]
       \/ \E m \in BackendErrors :
             admin' = [admin EXCEPT !.error = Some(m), !.loading = FALSE]
    /\ pc' = act.resume
    /\ UNCHANGED <<fixed, gcuLocals, store, responses, form, sup, act, callLog, alertMsg, thrown>>

\* The dashboard proper is rendered.
AdminRendered ==
    /\ screen = "admin"
    /\ ~admin.loading
    /\ ~Truthy(admin.error)

\* Mutant: the reminders leave out the assignments that wait for the added
\* reviewer only.
incompleteAssignments_IgnoringReviewer ==
    SelectSeq(admin.assignments,
        LAMBDA a : \/ ~IsTrue(a.SelfEvalSubmitted)
                   \/ ~IsTrue(a.SupervisorSubmitted))

\* The assignments sent with reminders and go-live.
incompleteAssignments ==
    SelectSeq(admin.assignments,
        LAMBDA a : \/ ~IsTrue(a.SelfEvalSubmitted)
                   \/ ~IsTrue(a.SupervisorSubmitted)
                   \/ /\ IsSome(a.ProposedReviewer)
                      /\ IsSome(a.OptionalReviewer)
                      /\ Val(a.ProposedReviewer).Id = Val(a.OptionalReviewer).Id
                      /\ ~IsTrue(a.ReviewerSubmitted))

\* The state of the two webhook sections, by the kind of message.
UrlField(kind) == IF kind = "reminders" THEN "webhookUrl" ELSE "goLiveWebhookUrl"

ShowField(kind) == IF kind = "reminders" THEN "showWebhookInput" ELSE "showGoLiveWebhookInput"

SendingField(kind) == IF kind = "reminders" THEN "sendingReminders" ELSE "sendingGoLive"

FlowUrl == <<"h","t","t","p","s",":","/","/","f","l","o","w">>

\* The webhook URL box is edited.
Admin_SetWebhookUrl ==
    /\ AdminRendered
    /\ ~admin.showRejectDialog
    /\ \E kind \in {"reminders", "goLive"}, url \in {<<>>, FlowUrl} :
          /\ admin[ShowField(kind)]
          /\ url # admin[UrlField(kind)]
          /\ admin' = [admin EXCEPT ![UrlField(kind)] = url]
    /\ UNCHANGED <<fixed, gcuLocals, store, responses, form, sup, act, callLog, alertMsg,
                   thrown, pc>>

\* The Cancel button of a webhook URL box.
Admin_CancelWebhookInput ==
    /\ AdminRendered
    /\ ~admin.showRejectDialog
    /\ \E kind \in {"reminders", "goLive"} :
          /\ admin[ShowField(kind)]
          /\ admin' = [admin EXCEPT ![ShowField(kind)] = FALSE]
    /\ UNCHANGED <<fixed, gcuLocals, store, responses, form, sup, act, callLog, alertMsg,
                   thrown, pc>>

\* The section's button (disabled while sending or with nothing incomplete)
\* or the Send button of the URL box: without a URL the box is shown and
\* nothing is sent; with one, the POST is issued.
HandleSend(kind) ==
    /\ AdminRendered
    /\ ~admin.showRejectDialog
    /\ pc = "idle"
    /\ \/ ~admin[SendingField(kind)] /\ incompleteAssignments # <<>>
       \/ admin[ShowField(kind)]
    /\ IF admin[UrlField(kind)] = <<>>
       THEN /\ admin' = [admin EXCEPT ![ShowField(kind)] = TRUE]
            /\ UNCHANGED <<act, callLog, pc>>
       ELSE /\ admin' = [admin EXCEPT ![SendingField(kind)] = TRUE]
            /\ Begin(kind, FALSE, 0, 0, NoneRejected, "idle")
            /\ pc' = "send_post"
    /\ UNCHANGED <<fixed, gcuLocals, store, responses, form, sup, alertMsg, thrown>>

handleSendReminders == HandleSend("reminders")

handleSendGoLive == HandleSend("goLive")

\* The status codes a webhook may answer with, and response.ok.
HttpStatuses == {200, 299, 300, 500}

\* Mutant: only 200 counts as success.
ResponseOk_Only200(status) == status = 200

ResponseOk(status) == status \in 200 .. 299

\* The text of a failed response: errorText || response.statusText.
ErrorTexts == { <<"Bad Request">> }

WebhookError(prefix, status, text) ==
    <<prefix, ToString(status), ": ">> \o text

\* The name of a POST in the list of attempted calls.
PostCall(name) ==
    IF name = "reminders" THEN "POST reminders"
    ELSE IF name = "goLive" THEN "POST goLive"
    ELSE "POST rejection"

\* await fetch(webhookUrl, {method: 'POST', ...}) of sendReminders and
\* sendGoLive: a response comes back, and one that is not ok is thrown as an
\* error; or fetch itself rejects.
Send_Post ==
    /\ pc = "send_post"
    /\ \/ \E status \in HttpStatuses, text \in ErrorTexts :
             IF ResponseOk(status)
             THEN /\ callLog' = Append(callLog, Answered(Attempt(PostCall(act.name), TRUE), status))
                  /\ pc' = "send_done"
                  /\ UNCHANGED thrown
             ELSE LET msg == WebhookError("Webhook request failed with status ",
                                          status, text)
                  IN /\ callLog' = Append(callLog,
                            Answered(FailedAttempt(PostCall(act.name), msg), status))
                     /\ thrown' = Some(msg)
                     /\ pc' = "send_catch"
       \/ /\ Fails(PostCall(act.name), "send_catch")
    /\ UNCHANGED <<fixed, gcuLocals, store, responses, form, sup, admin, act, alertMsg>>

\* alert(`... sent successfully to N incomplete evaluations!`), the URL box
\* is hidden; finally: the sending marker is cleared.
Send_Done ==
    /\ pc = "send_done"
    /\ alertMsg' = Some(<<IF act.name = "reminders" THEN "Reminders" ELSE "Go Live",
                          " sent successfully to ",
                          ToString(Len(incompleteAssignments)),
                          " incomplete evaluations!">>)
    /\ admin' = [admin EXCEPT ![ShowField(act.name)] = FALSE,
                              ![SendingField(act.name)] = FALSE]
    /\ act' = NoAct
    /\ callLog' = <<>>
    /\ pc' = "idle"
    /\ UNCHANGED <<fixed, gcuLocals, store, responses, form, sup, thrown>>

\* Mutant: the catch block alerts a fixed text in place of the error's message.
Send_Catch_Substituting ==
    /\ pc = "send_catch"
    /\ alertMsg' = Some(<<IF act.name = "reminders" THEN "Error sending reminders: "
                          ELSE "Error sending go live: ">> \o <<"Failed to send">>)
    /\ admin' = [admin EXCEPT ![SendingField(act.name)] = FALSE]
    /\ thrown' = None
    /\ act' = NoAct
    /\ callLog' = <<>>
    /\ pc' = "idle"
    /\ UNCHANGED <<fixed, gcuLocals, store, responses, form, sup>>

\* catch: alert(`Error sending reminders: ${errorMessage}`) or
\* alert(`Error sending go live: ${errorMessage}`); finally: the sending
\* marker is cleared.
Send_Catch ==
    /\ pc = "send_catch"
    /\ alertMsg' = Some(<<IF act.name = "reminders" THEN "Error sending reminders: "
                          ELSE "Error sending go live: ">> \o Val(thrown))
    /\ admin' = [admin EXCEPT ![SendingField(act.name)] = FALSE]
    /\ thrown' = None
    /\ act' = NoAct
    /\ callLog' = <<>>
    /\ pc' = "idle"
    /\ UNCHANGED <<fixed, gcuLocals, store, responses, form, sup>>

\* String.prototype.trim on the reason: the spaces at both ends are removed.
RECURSIVE TrimStart(_)
TrimStart(s) == IF s # <<>> /\ Head(s) = " " THEN TrimStart(Tail(s)) ELSE s

RECURSIVE TrimEnd(_)
TrimEnd(s) ==
    IF s # <<>> /\ s[Len(s)] = " " THEN TrimEnd(SubSeq(s, 1, Len(s) - 1)) ELSE s

Trim(s) == TrimEnd(TrimStart(s))

\* What may be typed as the reason.
ReasonPool == { <<>>, <<" ", " ">>, <<"l", "a", "t", "e">> }

\* The Reject button of a row.
handleOpenRejectDialog ==
    /\ AdminRendered
    /\ ~admin.showRejectDialog
    /\ pc = "idle"
    /\ \E k \in DOMAIN admin.assignments :
          admin' = [admin EXCEPT !.selectedAssignment = Some(admin.assignments[k]),
                                 !.rejectionReason = <<>>,
                                 !.rejectEmployee = FALSE,
                                 !.rejectSupervisor = FALSE,
                                 !.rejectReviewer = FALSE,
                                 !.showRejectDialog = TRUE]
    /\ UNCHANGED <<fixed, gcuLocals, store, responses, form, sup, act, callLog, alertMsg,
                   thrown, pc>>

\* The dialog's fields as handleCloseRejectDialog leaves them.
ClosedDialog(a) ==
    [a EXCEPT !.showRejectDialog = FALSE,
              !.selectedAssignment = None,
              !.rejectionReason = <<>>,
              !.rejectEmployee = FALSE,
              !.rejectSupervisor = FALSE,
              !.rejectReviewer = FALSE]

\* The Cancel button of the dialog (disabled while sending), or its dismissal.
handleCloseRejectDialog ==
    /\ AdminRendered
    /\ admin.showRejectDialog
    /\ ~admin.sendingRejection
    /\ admin' = ClosedDialog(admin)
    /\ UNCHANGED <<fixed, gcuLocals, store, responses, form, sup, act, callLog, alertMsg,
                   thrown, pc>>

\* The reason is typed.
Admin_SetReason ==
    /\ AdminRendered
    /\ admin.showRejectDialog
    /\ \E reason \in ReasonPool :
          /\ reason # admin.rejectionReason
          /\ admin' = [admin EXCEPT !.rejectionReason = reason]
    /\ UNCHANGED <<fixed, gcuLocals, store, responses, form, sup, act, callLog, alertMsg,
                   thrown, pc>>

\* The checkboxes of the dialog: one is shown for a submitter the assignment
\* has, and is enabled once that submitter has submitted.
CheckboxField(role) ==
    IF role = "Employee" THEN "rejectEmployee"
    ELSE IF role = "Supervisor" THEN "rejectSupervisor"
    ELSE "rejectReviewer"

CheckboxEnabled(a, role) ==
    IF role = "Employee" THEN IsSome(a.Employee) /\ IsTrue(a.SelfEvalSubmitted)
    ELSE IF role = "Supervisor" THEN IsSome(a.Supervisor) /\ IsTrue(a.SupervisorSubmitted)
    ELSE IsSome(a.OptionalReviewer) /\ IsTrue(a.ReviewerSubmitted)

Admin_ToggleReject ==
    /\ AdminRendered
    /\ admin.showRejectDialog
    /\ IsSome(admin.selectedAssignment)
    /\ \E role \in ReviewerTypes :
          /\ CheckboxEnabled(Val(admin.selectedAssignment), role)
          /\ admin' = [admin EXCEPT ![CheckboxField(role)] = ~admin[CheckboxField(role)]]
    /\ UNCHANGED <<fixed, gcuLocals, store, responses, form, sup, act, callLog, alertMsg,
                   thrown, pc>>

\* The Send Rejection button (disabled while sending): the two validations
\* alert and return; otherwise setSendingRejection(true) and the POST is issued.
handleSendRejection ==
    /\ AdminRendered
    /\ admin.showRejectDialog
    /\ ~admin.sendingRejection
    /\ pc = "idle"
    /\ IsSome(admin.selectedAssignment)
    /\ IF Trim(admin.rejectionReason) = <<>>
       THEN /\ alertMsg' = Some(<<"Please provide a reason for rejection">>)
            /\ UNCHANGED <<admin, act, callLog, pc>>
       ELSE IF ~admin.rejectEmployee /\ ~admin.rejectSupervisor /\ ~admin.rejectReviewer
       THEN /\ alertMsg' = Some(<<"Please select at least one submitter to reject">>)
            /\ UNCHANGED <<admin, act, callLog, pc>>
       ELSE /\ admin' = [admin EXCEPT !.sendingRejection = TRUE]
            /\ Begin("reject", FALSE, Val(Val(admin.selectedAssignment).Id), 0,
                     [employee |-> admin.rejectEmployee,
                      supervisor |-> admin.rejectSupervisor,
                      reviewer |-> admin.rejectReviewer],
                     "reject_finally")
            /\ pc' = "reject_post"
            /\ UNCHANGED alertMsg
    /\ UNCHANGED <<fixed, gcuLocals, store, responses, form, sup, thrown>>

\* Mutant: the status of the response is not looked at.
sendRejection_AnyStatus ==
    /\ pc = "reject_post"
    /\ \/ \E status \in HttpStatuses :
             /\ callLog' = Append(callLog,
                    Answered([Attempt(PostCall(act.name), TRUE)
                                 EXCEPT !.ok = ResponseOk(status)], status))
             /\ pc' = "reject_write"
             /\ UNCHANGED thrown
       \/ /\ Fails(PostCall(act.name), "reject_catch")
    /\ UNCHANGED <<fixed, gcuLocals, store, responses, form, sup, admin, act, alertMsg>>

\* await fetch(rejectionWebhookUrl, {method: 'POST', ...}) of sendRejection.
sendRejection ==
    /\ pc = "reject_post"
    /\ \/ \E status \in HttpStatuses, text \in ErrorTexts :
             IF ResponseOk(status)
             THEN /\ callLog' = Append(callLog, Answered(Attempt(PostCall(act.name), TRUE), status))
                  /\ pc' = "reject_write"
                  /\ UNCHANGED thrown
             ELSE LET msg == WebhookError("Rejection webhook failed with status ",
                                          status, text)
                  IN /\ callLog' = Append(callLog,
                            Answered(FailedAttempt(PostCall(act.name), msg), status))
                     /\ thrown' = Some(msg)
                     /\ pc' = "reject_catch"
       \/ /\ Fails(PostCall(act.name), "reject_catch")
    /\ UNCHANGED <<fixed, gcuLocals, store, responses, form, sup, admin, act, alertMsg>>

\* Mutant: every submission flag is reset, whatever was selected.
RejectedPayload_All(employee, supervisor, reviewer) ==
    [SelfEvalSubmitted |-> Some(FALSE), SupervisorSubmitted |-> Some(FALSE),
     ReviewerSubmitted |-> Some(FALSE), Status |-> Some(InProgress)]

\* The payload of updateRejectedSubmissions.
RejectedPayload(employee, supervisor, reviewer) ==
    [f \in ({"Status"}
            \cup (IF employee THEN {"SelfEvalSubmitted"} ELSE {})
            \cup (IF supervisor THEN {"SupervisorSubmitted"} ELSE {})
            \cup (IF reviewer THEN {"ReviewerSubmitted"} ELSE {})) |->
        IF f = "Status" THEN Some(InProgress) ELSE Some(FALSE)]

\* await service.updateRejectedSubmissions(...); on success the alert, the
\* dialog is closed and loadAssignments is awaited.
updateRejectedSubmissions ==
    /\ pc = "reject_write"
    /\ \/ /\ store' = UpdateById(store, act.target,
                         RejectedPayload(act.rejected.employee, act.rejected.supervisor,
                                         act.rejected.reviewer))
          /\ callLog' = Append(callLog, Attempt("assignments.update", TRUE))
          /\ alertMsg' = Some(<<"Rejection sent successfully!">>)
          /\ admin' = [ClosedDialog(admin) EXCEPT !.loading = TRUE, !.error = None]
          /\ pc' = "admin_query"
          /\ UNCHANGED thrown
       \/ /\ Fails("assignments.update", "reject_catch")
          /\ UNCHANGED <<store, admin, alertMsg>>
    /\ UNCHANGED <<fixed, gcuLocals, responses, form, sup, act>>

\* loadAssignments has returned; finally: setSendingRejection(false).
Reject_Finally ==
    /\ pc = "reject_finally"
    /\ admin' = [admin EXCEPT !.sendingRejection = FALSE]
    /\ act' = NoAct
    /\ callLog' = <<>>
    /\ pc' = "idle"
    /\ UNCHANGED <<fixed, gcuLocals, store, responses, form, sup, alertMsg, thrown>>

\* catch: alert(`Error sending rejection: ${errorMessage}`); finally:
\* setSendingRejection(false).
Reject_Catch ==
    /\ pc = "reject_catch"
    /\ alertMsg' = Some(<<"Error sending rejection: ">> \o Val(thrown))
    /\ admin' = [admin EXCEPT !.sendingRejection = FALSE]
    /\ thrown' = None
    /\ act' = NoAct
    /\ callLog' = <<>>
    /\ pc' = "idle"
    /\ UNCHANGED <<fixed, gcuLocals, store, responses, form, sup>>

\* The administrator of the examples.
KaneMixed == <<"K","a","n","e","@","T","a","y","l","o","r","W","i","s","e","m","a","n",".","c","o","m">>

\* The users MainApp may be opened by: the two above and one administrator.
AppUsers == SignedInPool \cup {[Id |-> Some(21), Email |-> Some(KaneMixed)]}

\* isAdmin: the allow-list.
adminEmails ==
    << <<"k","a","n","e","@","t","a","y","l","o","r","w","i","s","e","m","a","n",".","c","o","m">>,
       <<"s","c","i","m","o","n","e","@","t","a","y","l","o","r","w","i","s","e","m","a","n",".","c","o","m">>,
       <<"v","e","c","c","h","i","o","j","@","t","a","y","l","o","r","w","i","s","e","m","a","n",".","c","o","m">> >>

\* adminEmails.some(email => email.toLowerCase() === me.Email.toLowerCase())
isAdmin(email) ==
    \E k \in DOMAIN adminEmails : toLowerCase(adminEmails[k]) = toLowerCase(email)

-----------------------------------------------------------------------------
(* The user actions, from the mount of one of the three components *)

InitActions ==
    /\ \/ /\ screen = "form"
          /\ pc = "form_mount"
          /\ store \in FormStores
          /\ \E rt \in ReviewerTypes :
                /\ form = [NoForm EXCEPT !.assignmentId = 1, !.reviewerType = rt]
                /\ responses \in {<<>>, <<ResponseItem(1, 1, rt, 7, None)>>}
       \/ /\ screen = "supervisor"
          /\ pc = "sup_mount"
          /\ store \in ActionStores
          /\ form = NoForm
          /\ responses = <<>>
       \/ /\ screen = "admin"
          /\ pc = "admin_mount"
          /\ store \in ActionStores
          /\ form = NoForm
          /\ responses = <<>>
    /\ signedIn = IF screen = "admin"
                  THEN [Id |-> Some(21), Email |-> Some(KaneMixed)]
                  ELSE [Id |-> Some(7), Email |-> Some(JaneMixed)]
    /\ sup = NoSup
    /\ admin = NoAdmin
    /\ act = NoAct
    /\ callLog = <<>>
    /\ alertMsg = None
    /\ app = NoApp
    /\ heap = <<>>
    /\ resolutions = <<>>
    /\ attempt = 0
    /\ lastError = None
    /\ u = [threw |-> FALSE, value |-> None, message |-> <<>>]
    /\ userCalls = 0
    /\ waited = 0
    /\ ret = [ok |-> "idle", err |-> "idle"]
    /\ me = None
    /\ ids = <<>>
    /\ items = <<>>
    /\ fetchLog = <<>>
    /\ thrown = None
    /\ pending = <<>>
    /\ loading = TRUE
    /\ error = None
    /\ selected = None

NextActions ==
    \/ GetCurrentUser_Lookup
    \/ GetCurrentUser_LookupThrows
    \/ GetCurrentUser_Check
    \/ GetCurrentUser_Throw
    \/ Form_Init
    \/ Form_InitGetAssignment
    \/ Form_InitGetMyResponse
    \/ Form_InitCatch
    \/ Form_SelectCategory
    \/ Form_NextSection
    \/ Save_Click
    \/ Submit_Click
    \/ Save_GetAssignment
    \/ createResponse_Add
    \/ createResponse_Query
    \/ createResponse_Catch
    \/ updateResponse
    \/ markSubmitted
    \/ Save_Done
    \/ Save_Catch
    \/ Sup_Mount
    \/ Sup_Query
    \/ Sup_LoadCatch
    \/ handleAddOptionalApprover
    \/ addOptionalApprover
    \/ Add_Done
    \/ Add_Catch
    \/ Admin_Mount
    \/ Admin_Retry
    \/ Admin_Query
    \/ Admin_SetWebhookUrl
    \/ Admin_CancelWebhookInput
    \/ handleSendReminders
    \/ handleSendGoLive
    \/ Send_Post
    \/ Send_Done
    \/ Send_Catch
    \/ handleOpenRejectDialog
    \/ handleCloseRejectDialog
    \/ Admin_SetReason
    \/ Admin_ToggleReject
    \/ handleSendRejection
    \/ sendRejection
    \/ updateRejectedSubmissions
    \/ Reject_Finally
    \/ Reject_Catch

SpecActions == InitActions /\ [][NextActions]_vars

-----------------------------------------------------------------------------
(* MainApp: the role checks, the tabs and the view *)

\* A role check that is awaited, one that resolved with a value and one
\* that rejected.
Awaited == [state |-> "pending", value |-> FALSE]

Resolved(value) == [state |-> "resolved", value |-> value]

Rejected == [state |-> "rejected", value |-> FALSE]

\* The effect: Promise.all([...]) starts the three checks, and awaits them.
App_Mount ==
    /\ pc = "app_mount"
    /\ app' = [app EXCEPT !.supervisorCheck = Awaited,
                          !.adminCheck = Awaited,
                          !.managerCheck = Awaited]
    /\ pc' = "app_checking"
    /\ UNCHANGED <<resolveVars, signedIn, screen, me, pendVars, gcuLocals, store, responses, form, sup,
                   admin, act, callLog, alertMsg, thrown>>

\* svc.getAssignmentsWhereSupervisor() settles: with the user that
\* getCurrentUser returned it resolves with the supervised assignments that
\* have a numeric Id (assignments.length > 0 is what MainApp keeps); it
\* rejects when getCurrentUser threw or the query rejected.
Check_Supervisor ==
    /\ app.supervisorCheck = Awaited
    /\ \/ LET rows == SupervisedBy(toLowerCase(Val(signedIn.Email)))
              kept == SelectSeq(rows, LAMBDA it : IsSome(it.Id))
          IN app' = [app EXCEPT !.supervisorCheck = Resolved(Len(kept) > 0)]
       \/ app' = [app EXCEPT !.supervisorCheck = Rejected]
    /\ UNCHANGED <<resolveVars, signedIn, screen, me, pendVars, gcuLocals, store, responses, form, sup,
                   admin, act, callLog, alertMsg, thrown, pc>>

\* svc.isAdmin() settles: it resolves with the allow-list test of the user
\* that getCurrentUser returned, or rejects when getCurrentUser threw.
Check_Admin ==
    /\ app.adminCheck = Awaited
    /\ \/ app' = [app EXCEPT !.adminCheck = Resolved(isAdmin(Val(signedIn.Email)))]
       \/ app' = [app EXCEPT !.adminCheck = Rejected]
    /\ UNCHANGED <<resolveVars, signedIn, screen, me, pendVars, gcuLocals, store, responses, form, sup,
                   admin, act, callLog, alertMsg, thrown, pc>>

\* What svc.isDepartmentManager() may settle with: a manager record
\* (truthy), none, or a rejection.
isDepartmentManager == {Resolved(TRUE), Resolved(FALSE), Rejected}

Check_Manager ==
    /\ app.managerCheck = Awaited
    /\ \E outcome \in isDepartmentManager : app' = [app EXCEPT !.managerCheck = outcome]
    /\ UNCHANGED <<resolveVars, signedIn, screen, me, pendVars, gcuLocals, store, responses, form, sup,
                   admin, act, callLog, alertMsg, thrown, pc>>

\* The three checks of Promise.all.
Checks == <<app.supervisorCheck, app.adminCheck, app.managerCheck>>

\* Mutant: the results are applied as soon as two checks have resolved.
App_Join_Early ==
    /\ pc = "app_checking"
    /\ \E i, j \in 1 .. 3 : i # j /\ Checks[i].state = "resolved" /\ Checks[j].state = "resolved"
    /\ app' = [app EXCEPT !.isSupervisor = app.supervisorCheck.value,
                          !.isAdmin = app.adminCheck.value,
                          !.isDepartmentManager = app.managerCheck.value,
                          !.checkingSupervisor = FALSE]
    /\ screen' = app.currentView
    /\ pc' = "app_ready"
    /\ UNCHANGED <<resolveVars, signedIn, me, pendVars, gcuLocals, store, responses, form, sup,
                   admin, act, callLog, alertMsg, thrown>>

\* Promise.all resolves once all three have: the three flags are set, and
\* finally setCheckingSupervisor(false).  The current view is rendered.
App_Join ==
    /\ pc = "app_checking"
    /\ \A i \in 1 .. 3 : Checks[i].state = "resolved"
    /\ app' = [app EXCEPT !.isSupervisor = app.supervisorCheck.value,
                          !.isAdmin = app.adminCheck.value,
                          !.isDepartmentManager = app.managerCheck.value,
                          !.checkingSupervisor = FALSE]
    /\ screen' = app.currentView
    /\ pc' = "app_ready"
    /\ UNCHANGED <<resolveVars, signedIn, me, pendVars, gcuLocals, store, responses, form, sup,
                   admin, act, callLog, alertMsg, thrown>>

\* Mutant: the catch block keeps the results of the checks that resolved.
App_Catch_KeepingResults ==
    /\ pc = "app_checking"
    /\ \E i \in 1 .. 3 : Checks[i].state = "rejected"
    /\ app' = [app EXCEPT !.isSupervisor = app.supervisorCheck.value,
                          !.isAdmin = app.adminCheck.value,
                          !.isDepartmentManager = app.managerCheck.value,
                          !.checkingSupervisor = FALSE]
    /\ screen' = app.currentView
    /\ pc' = "app_ready"
    /\ UNCHANGED <<resolveVars, signedIn, me, pendVars, gcuLocals, store, responses, form, sup,
                   admin, act, callLog, alertMsg, thrown>>

\* Promise.all rejects as soon as one check has: the catch block clears the
\* three flags, and finally setCheckingSupervisor(false).
App_Catch ==
    /\ pc = "app_checking"
    /\ \E i \in 1 .. 3 : Checks[i].state = "rejected"
    /\ app' = [app EXCEPT !.isSupervisor = FALSE,
                          !.isAdmin = FALSE,
                          !.isDepartmentManager = FALSE,
                          !.checkingSupervisor = FALSE]
    /\ screen' = app.currentView
    /\ pc' = "app_ready"
    /\ UNCHANGED <<resolveVars, signedIn, me, pendVars, gcuLocals, store, responses, form, sup,
                   admin, act, callLog, alertMsg, thrown>>

\* What MainApp renders: the loading indicator, or the current view.
AppRender == IF app.checkingSupervisor THEN "loading" ELSE app.currentView

\* The navigation tabs are rendered.
TabsShown ==
    /\ ~app.checkingSupervisor
    /\ app.isSupervisor \/ app.isAdmin \/ app.isDepartmentManager

\* The tab of a view is rendered.
TabShown(view) ==
    /\ TabsShown
    /\ \/ view = "pending"
       \/ view = "supervisor" /\ app.isSupervisor
       \/ view = "manager" /\ app.isDepartmentManager
       \/ view = "admin" /\ app.isAdmin

\* Mutant: the Admin tab is rendered with the other tabs.
App_SetView_AdminForAll ==
    /\ \E view \in {"pending", "supervisor", "manager", "admin"} :
          /\ TabShown(view) \/ (TabsShown /\ view = "admin")
          /\ view # app.currentView
          /\ app' = [app EXCEPT !.currentView = view]
          /\ screen' = view
    /\ UNCHANGED <<resolveVars, signedIn, me, pendVars, gcuLocals, store, responses, form, sup,
                   admin, act, callLog, alertMsg, thrown, pc>>

\* A tab is clicked: setCurrentView(view).
App_SetView ==
    /\ \E view \in {"pending", "supervisor", "manager", "admin"} :
          /\ TabShown(view)
          /\ view # app.currentView
          /\ app' = [app EXCEPT !.currentView = view]
          /\ screen' = view
    /\ UNCHANGED <<resolveVars, signedIn, me, pendVars, gcuLocals, store, responses, form, sup,
                   admin, act, callLog, alertMsg, thrown, pc>>

InitApp ==
    /\ signedIn \in AppUsers
    /\ store \in ActionStores
    /\ responses = <<>>
    /\ screen = "main"
    /\ pc = "app_mount"
    /\ form = NoForm
    /\ sup = NoSup
    /\ admin = NoAdmin
    /\ act = NoAct
    /\ callLog = <<>>
    /\ alertMsg = None
    /\ app = NoApp
    /\ heap = <<>>
    /\ resolutions = <<>>
    /\ attempt = 0
    /\ lastError = None
    /\ u = NoLookup
    /\ userCalls = 0
    /\ waited = 0
    /\ ret = [ok |-> "idle", err |-> "idle"]
    /\ me = None
    /\ ids = <<>>
    /\ items = <<>>
    /\ fetchLog = <<>>
    /\ thrown = None
    /\ pending = <<>>
    /\ loading = TRUE
    /\ error = None
    /\ selected = None

NextApp ==
    \/ App_Mount
    \/ Check_Supervisor
    \/ Check_Admin
    \/ Check_Manager
    \/ App_Join
    \/ App_Catch
    \/ App_SetView

SpecApp == InitApp /\ [][NextApp]_vars

-----------------------------------------------------------------------------
(* Vocabulary of the properties, defined apart from the code's operators *)

Range(f) == {f[i] : i \in DOMAIN f}

\* Two strings that differ at most in the case of their letters.
SameIgnoringCase(a, b) ==
    /\ Len(a) = Len(b)
    /\ \A i \in 1..Len(a) :
          \/ a[i] = b[i]
          \/ \E k \in 1..Len(UpperLetters) :
                {a[i], b[i]} = {UpperLetters[k], LowerLetters[k]}

\* The reference is present and carries the email, up to case.
RefMatches(ref, email) ==
    /\ ref # None
    /\ Val(ref).EMail # None
    /\ SameIgnoringCase(Val(Val(ref).EMail), email)

\* How many of the three relationship fields of a record match the email.
MatchCount(it, email) ==
    Cardinality({f \in {"Employee", "Supervisor", "OptionalReviewer"} :
                    RefMatches(it[f], email)})

ClosedWords ==
    { <<"c","o","m","p","l","e","t","e">>,
      <<"c","o","m","p","l","e","t","e","d">>,
      <<"c","l","o","s","e","d">>,
      <<"a","r","c","h","i","v","e","d">> }

\* The status is one of the closed words, up to case.
StatusIsClosed(status) ==
    /\ status # None
    /\ \E w \in ClosedWords : SameIgnoringCase(Val(status), w)

StatusIsBlank(status) == status = None \/ status = Some(<<>>)

\* The load has delivered a pending list to the dashboard.
Delivered == pc = "settled" /\ error = None

\* The caller's email.
MyEmail == Val(me).Email

\* The positions of the fetched records that a pending item stems from.
SourcesOf(p) == {i \in DOMAIN items : items[i].Id = p.Id}

\* The positions of the fetched records that have a numeric Id, an identity
\* match and a status that is not closed.
Qualifying(rows, email) ==
    {i \in DOMAIN rows :
        /\ rows[i].Id # None
        /\ MatchCount(rows[i], email) >= 1
        /\ ~StatusIsClosed(rows[i].Status)}

UsedFallback == \E j \in DOMAIN fetchLog : fetchLog[j].kind = "top"

-----------------------------------------------------------------------------
(* C1: a record is returned only if the email of its Employee, Supervisor or
   OptionalReviewer reference equals the caller's email up to case; a record
   whose three references are all absent or carry no email is never
   returned. *)
C1_OnlyIdentityMatches ==
    Delivered =>
        /\ \A k \in DOMAIN pending :
              /\ SourcesOf(pending[k]) # {}
              /\ \A i \in SourcesOf(pending[k]) :
                    \/ RefMatches(items[i].Employee, MyEmail)
                    \/ RefMatches(items[i].Supervisor, MyEmail)
                    \/ RefMatches(items[i].OptionalReviewer, MyEmail)
        /\ \A i \in DOMAIN items :
              (\A f \in {"Employee", "Supervisor", "OptionalReviewer"} :
                   items[i][f] = None \/ ~Truthy(Val(items[i][f]).EMail))
              => \A k \in DOMAIN pending : pending[k].Id # items[i].Id

\* A record was returned whose email differs from the caller's in case only.
C1_Witness ==
    /\ Delivered
    /\ \E k \in DOMAIN pending : \E i \in SourcesOf(pending[k]) :
          /\ RefMatches(items[i].Employee, MyEmail)
          /\ Val(Val(items[i].Employee).EMail) # MyEmail

(* C2: no returned pending assignment has a status that is, up to case, one
   of complete, completed, closed, archived; and a fetched record with an
   absent or empty status, a numeric Id and an identity match is returned,
   on either fetch path. *)
C2_ClosedDroppedBlankKept ==
    Delivered =>
        /\ \A k \in DOMAIN pending : ~StatusIsClosed(pending[k].Status)
        /\ \A i \in DOMAIN items :
              (/\ StatusIsBlank(items[i].Status)
               /\ items[i].Id # None
               /\ MatchCount(items[i], MyEmail) >= 1)
              => \E k \in DOMAIN pending : pending[k].Id = items[i].Id

\* The fallback supplied a matching record with a blank status, which was
\* returned, while a closed record in upper case was dropped.
C2_Witness ==
    /\ Delivered
    /\ UsedFallback
    /\ \E k \in DOMAIN pending : StatusIsBlank(pending[k].Status)
    /\ \E i \in DOMAIN items :
          /\ items[i].Status = Some(<<"C","L","O","S","E","D">>)
          /\ MatchCount(items[i], MyEmail) >= 1

(* C3: every returned item carries one role by precedence: Employee if the
   employee email matches the caller, otherwise Supervisor if the supervisor
   email matches, otherwise Reviewer. *)
C3_RolePrecedence ==
    Delivered =>
        \A k \in DOMAIN pending : \A i \in SourcesOf(pending[k]) :
            pending[k].MyRole =
                IF RefMatches(items[i].Employee, MyEmail) THEN "Employee"
                ELSE IF RefMatches(items[i].Supervisor, MyEmail) THEN "Supervisor"
                ELSE "Reviewer"

\* A record whose employee and supervisor both match was tagged Employee.
C3_Witness ==
    /\ Delivered
    /\ \E k \in DOMAIN pending : \E i \in SourcesOf(pending[k]) :
          /\ RefMatches(items[i].Employee, MyEmail)
          /\ RefMatches(items[i].Supervisor, MyEmail)
          /\ pending[k].MyRole = "Employee"

(* C4, as stated: every item of the output has exactly one relationship
   field whose email equals the query email up to case. *)
C4_ExactlyOneMatch ==
    Delivered =>
        \A k \in DOMAIN pending : \A i \in SourcesOf(pending[k]) :
            MatchCount(items[i], MyEmail) = 1

(* C4, amended: every item of the output has at least one relationship field
   whose email equals the query email up to case; two or all three may. *)
C4_AtLeastOneMatch ==
    Delivered =>
        \A k \in DOMAIN pending : \A i \in SourcesOf(pending[k]) :
            MatchCount(items[i], MyEmail) \in 1..3

\* An item was returned whose three relationship fields all match.
C4_Witness ==
    /\ Delivered
    /\ \E k \in DOMAIN pending : \E i \in SourcesOf(pending[k]) :
          MatchCount(items[i], MyEmail) = 3

(* C5: the returned list is exactly the fetched records that have a numeric
   Id, an identity match and a status that is not closed, in the order in
   which they were fetched: none omitted, duplicated or reordered. *)
C5_ExactSubsequence ==
    Delivered =>
        LET expected == Pick(items, Qualifying(items, MyEmail))
        IN  /\ Len(pending) = Len(expected)
            /\ \A k \in DOMAIN pending :
                  /\ pending[k].Id = expected[k].Id
                  /\ pending[k].Status = expected[k].Status

\* Two records were returned and one between or around them was dropped.
C5_Witness ==
    /\ Delivered
    /\ Len(pending) >= 2
    /\ Len(items) > Len(pending)

(* C6: a fetched record without a numeric Id is never in the output; it
   raises no error; and the output is what it would be without it.  The
   fallback never asks for a record without a numeric Id. *)
C6_NoIdDropped ==
    /\ \A k \in DOMAIN pending : pending[k].Id # None
    /\ (pc = "settled" /\ \E i \in DOMAIN items : items[i].Id = None)
          => /\ error = None
             /\ pending = ResolvePending(
                    Pick(items, {i \in DOMAIN items : items[i].Id # None}),
                    MyEmail)
    /\ UsedFallback => \A i \in DOMAIN items : items[i].Id # None

\* A record without Id but with a matching email and an open status was
\* fetched beside a record that was returned.
C6_Witness ==
    /\ Delivered
    /\ Len(pending) >= 1
    /\ \E i \in DOMAIN items :
          /\ items[i].Id = None
          /\ MatchCount(items[i], MyEmail) >= 1
          /\ ~StatusIsClosed(items[i].Status)

(* C7: the server-filtered query is issued first; the unfiltered fallback
   fetch is performed if and only if that query returned zero rows; and the
   records the fallback obtains go through the same Id check, identity
   filter, status filter and role tagging. *)
C7_FallbackIffEmpty ==
    /\ \A j \in DOMAIN fetchLog : (fetchLog[j].kind = "filtered") = (j = 1)
    /\ pc \in {"pend_top", "pend_getById", "pend_resolve", "settled", "dash_catch"}
          /\ fetchLog # <<>>
          => ((UsedFallback \/ pc = "pend_top")
                 = (fetchLog[1].ok /\ fetchLog[1].rows = 0))
    /\ (Delivered /\ UsedFallback)
          => LET expected == Pick(store, Qualifying(store, MyEmail))
             IN  /\ Len(pending) = Len(expected)
                 /\ \A k \in DOMAIN pending :
                       /\ pending[k].Id = expected[k].Id
                       /\ pending[k].MyRole \in {"Employee", "Supervisor", "Reviewer"}
                       /\ (pending[k].MyRole = "Employee")
                             = RefMatches(expected[k].Employee, MyEmail)

\* The filtered query came back empty although the list holds a qualifying
\* record, and the fallback delivered that record.
C7_Witness ==
    /\ Delivered
    /\ UsedFallback
    /\ fetchLog[1] = Request("filtered", TRUE, 0)
    /\ Len(pending) >= 1

(* C8: getCurrentUser calls the current-user lookup at most three times per
   invocation; it returns the first result that has a numeric id and a
   non-empty email, without a further attempt; it raises an error when all
   three attempts threw or returned an incomplete user; and it terminates:
   inside it a step is always possible and each step advances a bounded
   measure. *)
InGetCurrentUser == pc \in {"gcu_call", "gcu_check"}

GetCurrentUser_Step ==
    \/ GetCurrentUser_Lookup
    \/ GetCurrentUser_LookupThrows
    \/ GetCurrentUser_Check
    \/ GetCurrentUser_Throw

\* The latest lookup resolved with a user that has a numeric id and a
\* non-empty email.
LookupWasComplete ==
    /\ ~u.threw
    /\ u.value # None
    /\ Val(u.value).Id # None
    /\ Val(u.value).Email \notin {None, Some(<<>>)}

GetCurrentUser_Measure == 2 * attempt + (IF pc = "gcu_check" THEN 1 ELSE 0)

C8_BoundedRetry ==
    /\ [](/\ userCalls <= 3
          /\ InGetCurrentUser =>
                /\ ENABLED GetCurrentUser_Step
                /\ GetCurrentUser_Measure <= 2 * 3
          /\ (pc = "gcu_call" /\ userCalls = 3) =>
                /\ ENABLED GetCurrentUser_Throw
                /\ ~ENABLED GetCurrentUser_Lookup
                /\ ~ENABLED GetCurrentUser_LookupThrows)
    /\ [][InGetCurrentUser =>
            /\ InGetCurrentUser' => GetCurrentUser_Measure' > GetCurrentUser_Measure
            /\ (pc = "gcu_check" /\ LookupWasComplete) =>
                  /\ pc' = ret.ok
                  /\ userCalls' = userCalls
                  /\ me' = Some([Id |-> Val(Val(u.value).Id),
                                 Email |-> Val(Val(u.value).Email)])
            /\ pc' = ret.ok => (pc = "gcu_check" /\ LookupWasComplete)
            /\ (pc = "gcu_check" /\ ~LookupWasComplete) => pc' = "gcu_call"
            /\ pc' = ret.err =>
                  /\ userCalls = 3
                  /\ ~LookupWasComplete
                  /\ thrown' # None
         ]_vars

\* The first lookup threw and the second returned a complete user, which
\* getCurrentUser returned after two calls.
C8_Witness ==
    /\ pc = "pend_query"
    /\ userCalls = 2
    /\ lastError # None
    /\ me # None

(* C9: when the current-user lookup stays incomplete or unreachable through
   all retry attempts during the pending-list load, the dashboard ends in its
   error state: loading is cleared, the error holds the failure message, the
   error view is rendered and no pending list is shown. *)
C9_UserFailureShown ==
    (pc = "settled" /\ me = None) =>
        /\ userCalls = 3
        /\ loading = FALSE
        /\ error # None
        /\ Val(error)[1] =
              "Unable to load current user information. Please refresh the page. "
        /\ (lastError # None =>
                SubSeq(Val(error), 2, Len(Val(error))) = <<"Details: ">> \o Val(lastError))
        /\ View = "error"
        /\ pending = <<>>
        /\ selected = None

\* Three lookups failed, the last by a rejection, and the dashboard shows
\* the error.
C9_Witness ==
    /\ pc = "settled"
    /\ me = None
    /\ lastError # None
    /\ View = "error"

-----------------------------------------------------------------------------
(* The user actions and their writes *)

\* The labels of the catch blocks an action's failed call leads to.
CatchLabels == {"create_catch", "save_catch", "add_catch", "send_catch", "reject_catch"}

\* The last attempted call of the action failed.
LastFailed == callLog # <<>> /\ ~callLog[Len(callLog)].ok

\* The lists of the backend.
backend == <<store, responses>>

(* C10: Within one user action (save, submit, add optional approver, send
   reminders, go live, reject) each list write and each webhook POST is
   attempted at most once, and a failed one is the action's last: once a
   write or POST has failed the action is in a catch block, it attempts no
   further call, changes nothing in the lists and ends.  Every change of the
   lists is an attempted call of the action that succeeded. *)
C10_NoReattempt ==
    /\ [](/\ \A i, j \in DOMAIN callLog :
                callLog[i].call = callLog[j].call => i = j
          /\ \A i \in DOMAIN callLog : ~callLog[i].ok => i = Len(callLog)
          /\ LastFailed => pc \in CatchLabels
          /\ pc = "idle" => callLog = <<>>)
    /\ [][/\ (LastFailed =>
               /\ backend' = backend
               /\ callLog' = callLog \/ (callLog' = <<>> /\ pc' = "idle")
               /\ pc' \in CatchLabels \cup {"idle"})
           /\ (backend' # backend =>
               /\ Len(callLog') = Len(callLog) + 1
               /\ callLog'[Len(callLog')].ok)
           /\ (callLog' # callLog /\ callLog' # <<>>) =>
               /\ Len(callLog') = Len(callLog) + 1
               /\ SubSeq(callLog', 1, Len(callLog)) = callLog]_vars

\* A rejection whose POST succeeded and whose list write failed: the two
\* calls were attempted once each and the action is in its catch block.
C10_Witness ==
    /\ pc = "reject_catch"
    /\ act.name = "reject"
    /\ Len(callLog) = 2
    /\ callLog[1].call = "POST rejection"
    /\ callLog[1].ok
    /\ callLog[2].call = "assignments.update"
    /\ ~callLog[2].ok
    /\ admin.sendingRejection
    /\ admin.showRejectDialog

-----------------------------------------------------------------------------
(* The alert of a failed write or POST *)

\* The failed call that ends the action in progress, and its error message.
FailedCall == callLog[Len(callLog)]

\* The step in which the handler's catch block alerts and the action ends.
AlertsFailure == LastFailed /\ callLog' = <<>>

\* The fixed texts the handlers and createResponse put before a message.
AlertPrefixes ==
    [save |-> {<<>>, <<"Create response failed: ">>},
     submit |-> {<<>>, <<"Create response failed: ">>},
     addOptionalApprover |-> {<<"Error: ">>},
     reminders |-> {<<"Error sending reminders: ">>},
     goLive |-> {<<"Error sending go live: ">>},
     reject |-> {<<"Error sending rejection: ">>}]

(* C11, as stated: when a list write or webhook call of an action fails, the
   alert shown to the user is exactly the error message of the failed call,
   with nothing prefixed, wrapped or substituted. *)
C11_AlertVerbatim ==
    [][AlertsFailure => alertMsg' = Some(FailedCall.error)]_vars

(* C11, amended: when a list write or webhook call of an action fails, the
   alert shown to the user ends with the error message of the failed call,
   unaltered, and what precedes it is only the fixed prefix of the action:
   nothing for a failed update or submission mark of the form, "Create
   response failed: " for a failed creation, "Error: " for adding the
   optional approver, "Error sending reminders: ", "Error sending go live: "
   and "Error sending rejection: " for the admin actions. *)
C11_AlertEndsWithError ==
    [][AlertsFailure =>
          /\ \E prefix \in AlertPrefixes[act.name] :
                alertMsg' = Some(prefix \o FailedCall.error)
          /\ (FailedCall.call = "responses.add") =
                (alertMsg' = Some(<<"Create response failed: ">> \o FailedCall.error))
          /\ pc' = "idle"]_vars

\* The alert of a reminders POST that was answered with status 500.
C11_Witness ==
    /\ pc = "idle"
    /\ callLog = <<>>
    /\ alertMsg = Some(<<"Error sending reminders: ",
                         "Webhook request failed with status ", "500", ": ",
                         "Bad Request">>)
    /\ ~admin.sendingReminders

-----------------------------------------------------------------------------
(* The webhook calls and the HTTP response *)

\* The step in which a webhook POST of sendReminders, sendGoLive or
\* sendRejection is settled, and the attempt it leaves in the list.
WebhookSettles == pc \in {"send_post", "reject_post"} /\ pc' # pc

Settled == callLog'[Len(callLog')]

\* The POST was answered with a success (2xx) response.
SuccessResponse(a) == a.status >= 200 /\ a.status < 300

(* C12: sendReminders, sendGoLive and sendRejection each raise an error
   exactly when the webhook's HTTP response is not a success (2xx) response
   (another status, or no response at all because the request itself
   failed), and complete normally, with nothing thrown, on a success
   response.  A response that is not a success is reported with its status. *)
C12_ErrorIffNotSuccess ==
    [][WebhookSettles =>
          /\ act.name \in {"reminders", "goLive", "reject"}
          /\ Len(callLog') = Len(callLog) + 1
          /\ (thrown' # None) = ~SuccessResponse(Settled)
          /\ (pc' \in CatchLabels) = ~SuccessResponse(Settled)
          /\ SuccessResponse(Settled) =>
                /\ Settled.ok
                /\ pc' = IF act.name = "reject" THEN "reject_write" ELSE "send_done"
          /\ ~SuccessResponse(Settled) =>
                /\ thrown' = Some(Settled.error)
                /\ Settled.status # 0 => Settled.error[2] = ToString(Settled.status)]_vars

\* A rejection POST answered with 300, just past the success range, has
\* thrown; a go-live POST answered with 299 would have completed.
C12_Witness ==
    /\ pc = "reject_catch"
    /\ Len(callLog) = 1
    /\ callLog[1].status = 300
    /\ thrown # None

-----------------------------------------------------------------------------
(* MainApp: the role checks and what is rendered *)

\* The states of the three role checks.
CheckStates == {app.supervisorCheck.state, app.adminCheck.state, app.managerCheck.state}

AllResolved == CheckStates = {"resolved"}

SomeRejected == "rejected" \in CheckStates

NoFlag == ~app.isSupervisor /\ ~app.isAdmin /\ ~app.isDepartmentManager

(* C13: The main app starts the supervisor, admin and department-manager
   checks together, and until all three have completed or one has failed it
   shows only the loading indicator: no navigation tabs and no view are
   rendered while it is checking, and it stops checking only when all three
   checks have resolved or one has rejected. *)
C13_JoinBeforeRender ==
    /\ CheckStates = {"idle"} \/ "idle" \notin CheckStates
    /\ app.checkingSupervisor =>
          /\ AppRender = "loading"
          /\ ~TabsShown
          /\ screen = "main"
    /\ ~app.checkingSupervisor => AllResolved \/ SomeRejected
    /\ (pc = "app_mount") = (CheckStates = {"idle"})

\* Two checks have resolved and the third is awaited: still loading.
C13_Witness ==
    /\ app.checkingSupervisor
    /\ app.supervisorCheck.state = "resolved"
    /\ app.adminCheck.state = "resolved"
    /\ app.managerCheck.state = "pending"
    /\ AppRender = "loading"

(* C14: A failure of any one of the role checks is not fatal: once a check
   has failed the app can leave the checking state, and when it has left it
   the pending-evaluations view is presented with the supervisor, admin and
   department-manager flags all false and no navigation tabs, even if the
   other checks succeeded. *)
C14_FailedCheckNotFatal ==
    SomeRejected =>
        \/ /\ app.checkingSupervisor
           /\ ENABLED App_Catch
        \/ /\ ~app.checkingSupervisor
           /\ NoFlag
           /\ ~TabsShown
           /\ AppRender = "pending"
           /\ screen = "pending"
           /\ ~ENABLED App_SetView

\* The administrator's admin check resolved with true, the manager check
\* failed, and the app shows the pending view without flags.
C14_Witness ==
    /\ ~app.checkingSupervisor
    /\ app.adminCheck = Resolved(TRUE)
    /\ app.managerCheck.state = "rejected"
    /\ NoFlag
    /\ AppRender = "pending"

\* The email is on the admin allow-list, whatever the letter case.
OnAllowList(email) ==
    \E k \in DOMAIN adminEmails : SameIgnoringCase(adminEmails[k], email)

(* C15: Only users whose email is, case-insensitively, on the admin
   allow-list can reach the admin dashboard: whenever the current view is
   the admin view, the admin check has returned true for the signed-in user,
   whose email is on the allow-list. *)
C15_AdminViewOnlyForAdmins ==
    (app.currentView = "admin" \/ screen = "admin" \/ AppRender = "admin") =>
        /\ app.adminCheck = Resolved(TRUE)
        /\ app.isAdmin
        /\ OnAllowList(Val(signedIn.Email))

\* The administrator, signed in with a mixed-case email, is on the admin view.
C15_Witness ==
    /\ AppRender = "admin"
    /\ screen = "admin"
    /\ signedIn.Email = Some(KaneMixed)
    /\ KaneMixed # toLowerCase(KaneMixed)

-----------------------------------------------------------------------------
(* Resolving pending assignments, on the objects the values live in *)

\* The number of rounds of a fetch and a resolution that are followed.
MaxResolves == 2

\* An array object: the addresses of its elements, in order.
Array(elems) == [elems |-> elems]

\* The addresses that n objects allocated on h get.
Fresh(h, n) == [k \in 1..n |-> Len(h) + k]

\* The objects at the addresses.
Deref(h, addrs) == [k \in 1..Len(addrs) |-> h[addrs[k]]]

\* The elements of the array at address a.
Elements(h, a) == Deref(h, h[a].elems)

\* The emails a resolution may be made for.
Callers == {Val(who.Email) : who \in SignedInPool}

\* The list query resolves: the rows it returns are new objects in a new
\* array, which is rawItems.
Resolve_Fetch ==
    /\ pc = "rp_fetch"
    /\ Len(resolutions) < MaxResolves
    /\ \E I \in SUBSET DOMAIN store :
          LET rows == Pick(store, I)
          IN  heap' = (heap \o rows) \o <<Array(Fresh(heap, Len(rows)))>>
    /\ pc' = "rp_resolve"
    /\ UNCHANGED <<screens, resolutions, store, gcuVars, me, thrown, pendVars>>

\* Mutant: the surviving records are turned into the pending items in place
\* and the input array is cut down to them.
FilterMap_InPlace(h, rawItems, email) ==
    LET meLower == toLowerCase(email)
        kept    == SelectSeq(h[rawItems].elems,
                             LAMBDA a : Len(Survivors(<<h[a]>>, meLower)) = 1)
    IN  [heap   |-> [a \in DOMAIN h |->
                        IF a = rawItems THEN Array(kept)
                        ELSE IF \E k \in DOMAIN kept : kept[k] = a
                             THEN ToPending(h[a], meLower)
                        ELSE h[a]],
         result |-> rawItems]

\* rawItems.filter(...).filter(...).filter(...).map(...): filter and map
\* return new arrays and the map callback returns an object literal, a new
\* object per surviving record.  The arrays of the three filters are not
\* reachable after the call and are left out.  Gives the heap after the call
\* and the address of the returned array.
FilterMap(h, rawItems, email) ==
    LET made == ResolvePending(Elements(h, rawItems), email)
    IN  [heap   |-> (h \o made) \o <<Array(Fresh(h, Len(made)))>>,
         result |-> Len(h) + Len(made) + 1]

\* What is recorded of a resolution: the caller, the input array and the
\* records in it at the call, the returned array and the items in it at the
\* return.
Resolution(email, rawItems, before, out) ==
    [email    |-> email,
     rawItems |-> rawItems,
     fetched  |-> Elements(before, rawItems),
     result   |-> out.result,
     returned |-> Elements(out.heap, out.result)]

\* Mutant: the service keeps the items of the resolution before and returns
\* them in front of the new ones.
Resolve_Call_Accumulating ==
    /\ pc = "rp_resolve"
    /\ \E email \in Callers :
          LET rawItems == Len(heap)
              made     == FilterMap(heap, rawItems, email)
              kept     == IF resolutions = <<>> THEN <<>>
                          ELSE heap[resolutions[Len(resolutions)].result].elems
              out      == [made EXCEPT !.heap[made.result] =
                                           Array(kept \o @.elems)]
          IN  /\ heap' = out.heap
              /\ resolutions' = Append(resolutions,
                                       Resolution(email, rawItems, heap, out))
    /\ pc' = "rp_fetch"
    /\ UNCHANGED <<screens, store, gcuVars, me, thrown, pendVars>>

\* The fetched array is resolved for a caller.
Resolve_Call ==
    /\ pc = "rp_resolve"
    /\ \E email \in Callers :
          LET rawItems == Len(heap)
              out      == FilterMap(heap, rawItems, email)
          IN  /\ heap' = out.heap
              /\ resolutions' = Append(resolutions,
                                       Resolution(email, rawItems, heap, out))
    /\ pc' = "rp_fetch"
    /\ UNCHANGED <<screens, store, gcuVars, me, thrown, pendVars>>

InitResolve ==
    /\ signedIn = [Id |-> Some(7), Email |-> Some(JaneMixed)]
    /\ responses = <<>>
    /\ screen = "pending"
    /\ form = NoForm
    /\ sup = NoSup
    /\ admin = NoAdmin
    /\ act = NoAct
    /\ callLog = <<>>
    /\ alertMsg = None
    /\ app = NoApp
    /\ heap = <<>>
    /\ resolutions = <<>>
    /\ store \in Stores
    /\ pc = "rp_fetch"
    /\ attempt = 0
    /\ lastError = None
    /\ u = NoLookup
    /\ userCalls = 0
    /\ waited = 0
    /\ ret = [ok |-> "idle", err |-> "idle"]
    /\ me = None
    /\ ids = <<>>
    /\ items = <<>>
    /\ fetchLog = <<>>
    /\ thrown = None
    /\ pending = <<>>
    /\ loading = TRUE
    /\ error = None
    /\ selected = None

NextResolve ==
    \/ Resolve_Fetch
    \/ Resolve_Call

SpecResolve == InitResolve /\ [][NextResolve]_vars

\* What a first resolution returns, made on these records alone.
Alone(fetched, email) ==
    LET h   == fetched \o <<Array(Fresh(<<>>, Len(fetched)))>>
        out == FilterMap(h, Len(h), email)
    IN  Elements(out.heap, out.result)

(* C16: Resolving pending assignments is deterministic and stateless: two
   resolutions with the same caller email and the same fetched records return
   lists of identical items, and each returns what a resolution with no
   resolution before it returns for that email and those records. *)
C16_SameInputSameOutput ==
    \A i \in DOMAIN resolutions :
        /\ resolutions[i].returned =
               Alone(resolutions[i].fetched, resolutions[i].email)
        /\ \A j \in DOMAIN resolutions :
               (/\ resolutions[i].email = resolutions[j].email
                /\ resolutions[i].fetched = resolutions[j].fetched)
               => resolutions[i].returned = resolutions[j].returned

\* Two resolutions for the same caller on equal records in different
\* arrays, each returning an item.
C16_Witness ==
    /\ Len(resolutions) = 2
    /\ resolutions[1].email = resolutions[2].email
    /\ resolutions[1].fetched = resolutions[2].fetched
    /\ resolutions[1].rawItems # resolutions[2].rawItems
    /\ Len(resolutions[2].returned) > 0
    /\ resolutions[1].result # resolutions[2].result

(* C17: Resolving pending assignments never mutates its input: over a
   resolution no object that existed before it changes, the fetched records
   and their array among them, and the returned array and the items in it
   are objects that did not exist before. *)
C17_InputNotMutated ==
    [][pc = "rp_resolve" =>
          LET rawItems == Len(heap)
              result   == resolutions'[Len(resolutions')].result
          IN  /\ heap'[rawItems] = heap[rawItems]
              /\ \A a \in DOMAIN heap : heap'[a] = heap[a]
              /\ result \notin DOMAIN heap
              /\ \A k \in DOMAIN heap'[result].elems :
                    heap'[result].elems[k] \notin DOMAIN heap
    ]_vars

\* A resolution returned an item, and the records it was given are as they
\* were fetched.
C17_Witness ==
    /\ Len(resolutions) = 1
    /\ pc = "rp_fetch"
    /\ Len(resolutions[1].returned) > 0
    /\ Len(resolutions[1].fetched) > Len(resolutions[1].returned)
    /\ Elements(heap, resolutions[1].rawItems) = resolutions[1].fetched

-----------------------------------------------------------------------------
\* The server-filtered query and the fallback fetch have both resolved, and
\* neither returned a record.
NoCandidates ==
    /\ \E j \in DOMAIN fetchLog : fetchLog[j].kind = "filtered"
    /\ \E j \in DOMAIN fetchLog : fetchLog[j].kind = "top"
    /\ \A j \in DOMAIN fetchLog : fetchLog[j].ok /\ fetchLog[j].rows = 0

(* C18: An empty set of candidate records produces an empty pending list and
   no error: once the server-filtered query and the fallback fetch have both
   returned no records, no error is raised, getPendingAssignmentsForUser
   returns an empty list, and the dashboard settles with an empty pending
   list and no error message. *)
C18_EmptyInEmptyOut ==
    NoCandidates =>
        /\ pc \in {"pend_getById", "pend_resolve", "settled"}
        /\ thrown = None
        /\ pc = "pend_getById" => ids = <<>> /\ ~ENABLED Pending_FetchThrows
        /\ pc = "pend_resolve" =>
              items = <<>> /\ ResolvePending(items, MyEmail) = <<>>
        /\ pc = "settled" =>
              /\ pending = <<>>
              /\ error = None
              /\ ~loading
              /\ View = "list"

\* The load settled after the two fetches returned nothing.
C18_Witness ==
    /\ NoCandidates
    /\ pc = "settled"
    /\ Len(fetchLog) = 2
    /\ pending = <<>>
    /\ View = "list"

-----------------------------------------------------------------------------
(* A session on the pending dashboard: the list is loaded, a row is opened *)
(* in the evaluation form, the form is saved or submitted, and Back is     *)
(* pressed.                                                                *)

\* The Open button of a listed row: setSelected(a).  The dashboard then
\* renders EvaluationForm with the row's Id and role, whose init effect is
\* about to run.  The locals of the calls that loaded the list are gone.
Session_Open ==
    /\ screen = "pending"
    /\ pc = "settled"
    /\ View = "list"
    /\ \E k \in DOMAIN Listed :
          /\ selected' = Some(Listed[k])
          /\ form' = [NoForm EXCEPT !.assignmentId = Val(Listed[k].Id),
                                    !.reviewerType = Listed[k].MyRole]
    /\ screen' = "form"
    /\ pc' = "form_mount"
    /\ DropFrame
    /\ UNCHANGED <<signedIn, responses, sup, admin, act, callLog, alertMsg, app,
                   resolveVars, store, me, thrown, ids, items, fetchLog, pending,
                   loading, error>>

\* The Back button over the form: setSelected(undefined).  EvaluationForm is
\* unmounted and the list is rendered from the dashboard's state; the load
\* effect depends on [svc] only and does not run again.
Session_Back ==
    /\ screen = "form"
    /\ pc = "idle"
    /\ IsSome(selected)
    /\ selected' = None
    /\ form' = NoForm
    /\ screen' = "pending"
    /\ pc' = "settled"
    /\ UNCHANGED <<signedIn, responses, sup, admin, act, callLog, alertMsg, app,
                   resolveVars, store, gcuVars, me, thrown, ids, items, fetchLog,
                   pending, loading, error>>

\* The dashboard is mounted for a user of the directory over a list that
\* holds one assignment.
InitSession ==
    /\ signedIn \in SignedInPool
    /\ responses = <<>>
    /\ screen = "pending"
    /\ form = NoForm
    /\ sup = NoSup
    /\ admin = NoAdmin
    /\ act = NoAct
    /\ callLog = <<>>
    /\ alertMsg = None
    /\ app = NoApp
    /\ heap = <<>>
    /\ resolutions = <<>>
    /\ store \in FormStores
    /\ pc = "mount"
    /\ attempt = 0
    /\ lastError = None
    /\ u = NoLookup
    /\ userCalls = 0
    /\ waited = 0
    /\ ret = [ok |-> "mount", err |-> "mount"]
    /\ me = None
    /\ ids = <<>>
    /\ items = <<>>
    /\ fetchLog = <<>>
    /\ thrown = None
    /\ pending = <<>>
    /\ loading = TRUE
    /\ error = None
    /\ selected = None

NextSession ==
    \/ Load_Start
    \/ GetCurrentUser_Lookup
    \/ GetCurrentUser_LookupThrows
    \/ GetCurrentUser_Check
    \/ GetCurrentUser_Throw
    \/ Pending_FilteredQuery
    \/ Pending_FallbackTop
    \/ Pending_FallbackGetById
    \/ Pending_FetchThrows
    \/ Load_SetPending
    \/ Load_Catch
    \/ Session_Open
    \/ Form_Init
    \/ Form_InitGetAssignment
    \/ Form_InitGetMyResponse
    \/ Form_InitCatch
    \/ Form_SelectCategory
    \/ Form_NextSection
    \/ Save_Click
    \/ Submit_Click
    \/ Save_GetAssignment
    \/ createResponse_Add
    \/ createResponse_Query
    \/ createResponse_Catch
    \/ updateResponse
    \/ markSubmitted
    \/ Save_Done
    \/ Save_Catch
    \/ Session_Back

SpecSession == InitSession /\ [][NextSession]_vars

\* The assignments list records the evaluation of this role on this
\* assignment as submitted.
SubmittedInStore(assignmentId, role) ==
    \E i \in DOMAIN store :
        /\ store[i].Id = Some(assignmentId)
        /\ \/ role = "Employee" /\ store[i].SelfEvalSubmitted = Some(TRUE)
           \/ role = "Supervisor" /\ store[i].SupervisorSubmitted = Some(TRUE)
           \/ role = "Reviewer" /\ store[i].ReviewerSubmitted = Some(TRUE)

\* The pending list shows a row for this assignment and role.
ShownInList(assignmentId, role) ==
    /\ View = "list"
    /\ \E k \in DOMAIN Listed :
          Listed[k].Id = Some(assignmentId) /\ Listed[k].MyRole = role

(* C19: Once a user has successfully submitted their evaluation for an
   assignment, that assignment is hidden from their pending list: when Back
   is pressed on a form whose evaluation has been submitted, the list shown
   next does not contain the assignment for that role. *)
C19_SubmittedIsHidden ==
    [][\A id \in {form.assignmentId} : \A role \in {form.reviewerType} :
          (/\ screen = "form"
           /\ screen' = "pending"
           /\ SubmittedInStore(id, role))
          => ~ShownInList(id, role)'
    ]_vars

\* The list shows the row of an evaluation that the user has submitted.
C19_Witness ==
    /\ screen = "pending"
    /\ pc = "settled"
    /\ alertMsg = Some(<<"Submitted!">>)
    /\ \E k \in DOMAIN Listed :
          SubmittedInStore(Val(Listed[k].Id), Listed[k].MyRole)

-----------------------------------------------------------------------------
\* The positions of the response records held for the open form: its
\* assignment, its reviewer type, and the signed-in user as reviewer.
RecordsOfForm ==
    {i \in DOMAIN responses :
        /\ responses[i].AssignmentIDId = form.assignmentId
        /\ responses[i].ReviewerType = form.reviewerType
        /\ Val(responses[i].ReviewerName).Id = signedIn.Id}

(* C20: After any sequence of Save and Submit actions on one open evaluation
   form, including actions that fail, the responses list holds at most one
   record for the form's assignment, reviewer type and user. *)
C20_AtMostOneRecord ==
    screen = "form" => Cardinality(RecordsOfForm) <= 1

\* Two records for the same form: the first was added by a save that then
\* failed, the second by the next save.
C20_Witness ==
    /\ screen = "form"
    /\ pc = "idle"
    /\ Cardinality(RecordsOfForm) = 2
    /\ alertMsg = Some(<<"Saved">>)
    /\ IsSome(form.responseId)

-----------------------------------------------------------------------------
\* The writes to the responses list.
ResponseWrites == {"responses.add", "responses.update"}

\* markSubmitted has been called by the handler in progress.
MarkCalled == \E j \in DOMAIN callLog : callLog[j].call = "assignments.update"

\* The handler in progress is a Submit whose response write did not go
\* through: the write was rejected, or createResponse threw.
ResponseWriteFailed ==
    /\ act.name = "submit"
    /\ \/ \E j \in DOMAIN callLog :
             callLog[j].call \in ResponseWrites /\ ~callLog[j].ok
       \/ pc = "create_catch"

\* A response record of the open form carries a submission date.
DatedRecord ==
    \E i \in DOMAIN responses :
        /\ responses[i].AssignmentIDId = form.assignmentId
        /\ responses[i].ReviewerType = form.reviewerType
        /\ responses[i].SubmittedDate # None

(* C21: On Submit, the assignment's submission flag is set only after the
   response record carrying the submission date has been created or updated
   with success; if the response write fails, markSubmitted is not called
   and the assignment is left unchanged. *)
C21_MarkAfterResponseWrite ==
    /\ [](screen = "form" =>
            /\ MarkCalled =>
                  /\ act.name = "submit"
                  /\ Len(callLog) >= 2
                  /\ callLog[1].call \in ResponseWrites /\ callLog[1].ok
                  /\ callLog[2].call = "assignments.update"
                  /\ IsSome(form.responseId)
                  /\ DatedRecord
            /\ ResponseWriteFailed =>
                  /\ ~MarkCalled
                  /\ pc \in {"create_catch", "save_catch"})
    /\ [][screen = "form" =>
            /\ store' # store =>
                  /\ pc = "save_mark"
                  /\ act.name = "submit"
                  /\ callLog # <<>> /\ callLog[1].call \in ResponseWrites
                  /\ callLog[1].ok
                  /\ DatedRecord
            /\ ResponseWriteFailed => store' = store
         ]_vars

\* A Submit whose update of the response was rejected is in its catch block,
\* with markSubmitted not called and the flags as they were.
C21_Witness ==
    /\ screen = "form"
    /\ pc = "save_catch"
    /\ act.name = "submit"
    /\ Len(callLog) = 1
    /\ callLog[1].call = "responses.update"
    /\ ~callLog[1].ok
    /\ store[1].SupervisorSubmitted = Some(FALSE)
    /\ store[1].Status = None

-----------------------------------------------------------------------------
\* The submission flag of each role.
FlagOfRole ==
    [Employee |-> "SelfEvalSubmitted", Supervisor |-> "SupervisorSubmitted",
     Reviewer |-> "ReviewerSubmitted"]

SubmissionFlags == {"SelfEvalSubmitted", "SupervisorSubmitted", "ReviewerSubmitted"}

\* markSubmitted's update goes through in this step.
MarkSubmittedStep == pc = "save_mark" /\ pc' = "save_done"

(* C22: markSubmitted(assignment, role) sets to true exactly the submission
   flag of that role, sets Status to "In Progress", and leaves the other two
   flags, every other field of the assignment and every other assignment
   unchanged; the status it writes is never a closed status. *)
C22_MarkSubmittedFrame ==
    [][MarkSubmittedStep =>
          \A i \in DOMAIN store :
              IF store[i].Id = Some(form.assignmentId)
              THEN /\ DOMAIN store'[i] = DOMAIN store[i]
                   /\ store'[i][FlagOfRole[form.reviewerType]] = Some(TRUE)
                   /\ store'[i].Status = Some(InProgress)
                   /\ ~StatusIsClosed(store'[i].Status)
                   /\ \A f \in DOMAIN store[i] \ {"Status", FlagOfRole[form.reviewerType]} :
                         store'[i][f] = store[i][f]
              ELSE store'[i] = store[i]
    ]_vars

\* The third role has submitted: the reviewer's flag is set next to the two
\* that were, and the status is "In Progress".
C22_Witness ==
    /\ pc = "save_done"
    /\ act.name = "submit"
    /\ form.reviewerType = "Reviewer"
    /\ store[1].SelfEvalSubmitted = Some(TRUE)
    /\ store[1].SupervisorSubmitted = Some(TRUE)
    /\ store[1].ReviewerSubmitted = Some(TRUE)
    /\ store[1].Status = Some(InProgress)
    /\ store[1].OptionalReviewer = CarolRef

-----------------------------------------------------------------------------
\* The submission flags of the roles selected for rejection at the click.
RejectedFlags ==
    (IF act.rejected.employee THEN {"SelfEvalSubmitted"} ELSE {})
    \cup (IF act.rejected.supervisor THEN {"SupervisorSubmitted"} ELSE {})
    \cup (IF act.rejected.reviewer THEN {"ReviewerSubmitted"} ELSE {})

\* updateRejectedSubmissions' update goes through in this step.
RejectedUpdateStep == pc = "reject_write" /\ pc' = "admin_query"

(* C23: updateRejectedSubmissions resets to false exactly the submission
   flags of the roles selected for rejection, leaves the flags of the
   unselected roles and the other fields unchanged, and sets Status to
   "In Progress". *)
C23_RejectedFlagsReset ==
    [][RejectedUpdateStep =>
          \A i \in DOMAIN store :
              IF store[i].Id = Some(act.target)
              THEN /\ \A f \in RejectedFlags : store'[i][f] = Some(FALSE)
                   /\ \A f \in SubmissionFlags \ RejectedFlags :
                         store'[i][f] = store[i][f]
                   /\ store'[i].Status = Some(InProgress)
                   /\ \A f \in DOMAIN store[i] \ (SubmissionFlags \cup {"Status"}) :
                         store'[i][f] = store[i][f]
              ELSE store'[i] = store[i]
    ]_vars

\* The supervisor's submission alone was rejected on an assignment all three
\* had submitted.
C23_Witness ==
    /\ pc = "admin_query"
    /\ act.name = "reject"
    /\ RejectedFlags = {"SupervisorSubmitted"}
    /\ alertMsg = Some(<<"Rejection sent successfully!">>)
    /\ store[1].SelfEvalSubmitted = Some(TRUE)
    /\ store[1].SupervisorSubmitted = Some(FALSE)
    /\ store[1].ReviewerSubmitted = Some(TRUE)
    /\ store[1].Status = Some(InProgress)

-----------------------------------------------------------------------------
\* The rejection in progress has had its webhook call fail.
RejectionWebhookFailed ==
    /\ act.name = "reject"
    /\ callLog # <<>>
    /\ callLog[1].call = "POST rejection"
    /\ ~callLog[1].ok

\* The rejection in progress has had its webhook call succeed.
RejectionWebhookSucceeded ==
    /\ act.name = "reject"
    /\ callLog # <<>>
    /\ callLog[1].call = "POST rejection"
    /\ callLog[1].ok
    /\ SuccessResponse(callLog[1])

\* The rejection dialog is open on the assignment of the click.
DialogOpen ==
    /\ admin.showRejectDialog
    /\ IsSome(admin.selectedAssignment)
    /\ Val(admin.selectedAssignment).Id = Some(act.target)

(* C24: In the admin rejection flow the assignment's flags and status are
   updated only after the rejection webhook call has succeeded; if the
   webhook fails, no store update is issued, and the handler ends leaving
   the dialog open with its entries and the loaded assignment list as they
   are, clearing only the sending marker. *)
C24_UpdateAfterWebhook ==
    /\ [](screen = "admin" =>
            /\ MarkCalled => RejectionWebhookSucceeded
            /\ RejectionWebhookFailed =>
                  /\ Len(callLog) = 1
                  /\ pc = "reject_catch"
                  /\ admin.sendingRejection
                  /\ DialogOpen)
    /\ [][screen = "admin" =>
            /\ store' # store =>
                  pc = "reject_write" /\ RejectionWebhookSucceeded
            /\ RejectionWebhookFailed => store' = store
            /\ (RejectionWebhookFailed /\ pc' # pc) =>
                  /\ pc' = "idle"
                  /\ admin' = [admin EXCEPT !.sendingRejection = FALSE]
         ]_vars

\* After a rejection whose webhook answered 500: the dialog is open with the
\* reason, nothing is being sent, and the assignment is as it was.
C24_Witness ==
    /\ screen = "admin"
    /\ pc = "idle"
    /\ alertMsg = Some(<<"Error sending rejection: ",
                         "Rejection webhook failed with status ", "500", ": ",
                         "Bad Request">>)
    /\ admin.showRejectDialog
    /\ Trim(admin.rejectionReason) # <<>>
    /\ admin.rejectSupervisor
    /\ ~admin.sendingRejection
    /\ store[1].SupervisorSubmitted = Some(TRUE)

-----------------------------------------------------------------------------
\* The assignment has a proposed reviewer who is not its optional reviewer.
AwaitsApproval(a) ==
    /\ a.ProposedReviewer # None
    /\ \/ a.OptionalReviewer = None
       \/ Val(a.OptionalReviewer).Id # Val(a.ProposedReviewer).Id

\* The item of the assignments list with this id.
StoredAssignment(id) == store[CHOOSE i \in DOMAIN store : store[i].Id = id]

(* C25: The supervisor dashboard lists an assignment only while it has a
   proposed reviewer whose id differs from the optional reviewer's id; after
   addOptionalApprover has succeeded for an assignment and the list has been
   reloaded, that assignment is not listed. *)
C25_ListedAwaitApproval ==
    screen = "supervisor" =>
        /\ \A k \in DOMAIN Sup_Listed : AwaitsApproval(Sup_Listed[k])
        /\ pc = "add_done" =>
              /\ callLog # <<>> /\ callLog[1].ok
              /\ ~AwaitsApproval(StoredAssignment(Some(act.target)))
              /\ \A k \in DOMAIN Sup_Listed : Sup_Listed[k].Id # Some(act.target)
        /\ pc = "idle" =>
              \A k \in DOMAIN Sup_Listed :
                  AwaitsApproval(StoredAssignment(Sup_Listed[k].Id))

\* The proposed reviewer was added and the list reloaded: the card is gone.
C25_Witness ==
    /\ screen = "supervisor"
    /\ pc = "add_done"
    /\ ~sup.loading
    /\ sup.error = None
    /\ Len(sup.assignments) = 1
    /\ Sup_Listed = <<>>
    /\ store[1].OptionalReviewer = CarolRef
    /\ store[1].SendOptionalEmail = Some(TRUE)

-----------------------------------------------------------------------------
\* A Save or Submit of the form is in flight.
SaveInFlight == act.name \in {"save", "submit"}

(* C26: While a Save or Submit started from the evaluation form is in
   flight, no second Save, Submit or Next Section action can be started, so
   two saves of the same form never overlap; and the in-flight marker is
   cleared when the action has finished, whether it succeeded or failed. *)
C26_NoOverlappingSave ==
    screen = "form" =>
        /\ SaveInFlight =>
              /\ form.saving
              /\ pc # "idle"
              /\ ~ENABLED Save_Click
              /\ ~ENABLED Submit_Click
              /\ ~ENABLED Form_NextSection
        /\ (FormRendered /\ ~form.saving) => (pc = "idle" /\ ~SaveInFlight)
        /\ pc = "idle" => ~form.saving

\* A Save is waiting for its update while the Next Section button is shown.
C26_Witness ==
    /\ screen = "form"
    /\ FormRendered
    /\ pc = "save_update"
    /\ act.name = "save"
    /\ form.saving
    /\ ~isLastCategory
    /\ IsSome(alertMsg)

-----------------------------------------------------------------------------
\* The field of an output item that holds the reference of a role.
FieldOfRole ==
    [Employee |-> "Employee", Supervisor |-> "Supervisor",
     Reviewer |-> "OptionalReviewer"]

(* C27: in every pending assignment returned by
   getPendingAssignmentsForUser, the identity reference that corresponds to
   MyRole (Employee, Supervisor or OptionalReviewer) is present in the output
   item and its email equals the caller's email up to case. *)
C27_RoleReferencePresent ==
    Delivered =>
        \A k \in DOMAIN pending :
            LET ref == pending[k][FieldOfRole[pending[k].MyRole]]
            IN  /\ IsSome(ref)
                /\ SameIgnoringCase(Val(ref).Email, MyEmail)

\* The same, for the items whose stored reference of that role has a numeric
\* Id; and a reference that is present always has the caller's email.
C27_PresentWhenIdNumeric ==
    Delivered =>
        \A k \in DOMAIN pending : \A i \in SourcesOf(pending[k]) :
            LET f   == FieldOfRole[pending[k].MyRole]
                ref == pending[k][f]
            IN  /\ RefMatches(items[i][f], MyEmail)
                /\ IsSome(Val(items[i][f]).Id) => IsSome(ref)
                /\ IsSome(ref) => SameIgnoringCase(Val(ref).Email, MyEmail)

\* An item was returned in the role Employee whose stored employee reference
\* has the caller's email and no numeric Id: the item has no Employee.
C27_Witness ==
    /\ Delivered
    /\ \E k \in DOMAIN pending : \E i \in SourcesOf(pending[k]) :
          /\ pending[k].MyRole = "Employee"
          /\ RefMatches(items[i].Employee, MyEmail)
          /\ Val(items[i].Employee).Id = None
          /\ pending[k].Employee = None

-----------------------------------------------------------------------------
(* AdminDashboard: the rows, the filters and the statistics *)

\* The most assignments the statistics are computed over.
MaxRows == 2

AllOption == <<"A","l","l">>

NotStartedText == <<"N","o","t"," ","S","t","a","r","t","e","d">>

NotApplicable == <<"N","/","A">>

\* ref?.Email || ""
EmailOrEmpty(ref) == IF IsSome(ref) THEN Val(ref).Email ELSE <<>>

\* One element of adminRows.  (The items of the model carry no Title and
\* their people no display name: the names are the "N/A" default.)
AdminRow(a) ==
    [id |-> a.Id,
     status |-> IF Truthy(a.Status) THEN Val(a.Status) ELSE NotStartedText,
     employeeName |-> NotApplicable,
     employeeEmail |-> EmailOrEmpty(a.Employee),
     employeeSubmitted |-> IsTrue(a.SelfEvalSubmitted),
     supervisorName |-> NotApplicable,
     supervisorEmail |-> EmailOrEmpty(a.Supervisor),
     supervisorSubmitted |-> IsTrue(a.SupervisorSubmitted),
     proposedReviewerName |-> NotApplicable,
     proposedReviewerEmail |-> EmailOrEmpty(a.ProposedReviewer),
     proposedReviewerAdded |->
         /\ IsSome(a.ProposedReviewer)
         /\ IsSome(a.OptionalReviewer)
         /\ Val(a.ProposedReviewer).Id = Val(a.OptionalReviewer).Id,
     proposedReviewerSubmitted |-> IsTrue(a.ReviewerSubmitted)]

adminRows == [i \in DOMAIN admin.assignments |-> AdminRow(admin.assignments[i])]

\* s.indexOf(sub) !== -1
Contains(s, sub) ==
    \E k \in 0..(Len(s) - Len(sub)) : SubSeq(s, k + 1, k + Len(sub)) = sub

matchesSearch(row, searchTerm) ==
    LET searchLower == toLowerCase(searchTerm)
    IN  \/ Contains(toLowerCase(row.employeeName), searchLower)
        \/ Contains(toLowerCase(row.employeeEmail), searchLower)
        \/ Contains(toLowerCase(row.supervisorName), searchLower)
        \/ Contains(toLowerCase(row.supervisorEmail), searchLower)
        \/ Contains(toLowerCase(row.proposedReviewerName), searchLower)
        \/ Contains(toLowerCase(row.proposedReviewerEmail), searchLower)

\* The test of the "completed" statistic and of the "All Completed" filter.
AllSubmitted(r) ==
    /\ r.employeeSubmitted
    /\ r.supervisorSubmitted
    /\ (~r.proposedReviewerAdded \/ r.proposedReviewerSubmitted)

\* The test of the "Has Incomplete" filter.
HasIncomplete(r) ==
    \/ ~r.employeeSubmitted
    \/ ~r.supervisorSubmitted
    \/ (r.proposedReviewerAdded /\ ~r.proposedReviewerSubmitted)

\* The callback of filteredRows, with the three filters it closes over.
RowPasses(row, searchTerm, statusFilter, submissionFilter) ==
    IF ~matchesSearch(row, searchTerm) THEN FALSE
    ELSE IF statusFilter # AllOption /\ row.status # statusFilter THEN FALSE
    ELSE IF submissionFilter = "All Completed" THEN AllSubmitted(row)
    ELSE IF submissionFilter = "Has Incomplete" THEN HasIncomplete(row)
    ELSE TRUE

\* The positions of the rows the table shows under the given filters.
Shown(searchTerm, statusFilter, submissionFilter) ==
    {i \in DOMAIN adminRows :
        RowPasses(adminRows[i], searchTerm, statusFilter, submissionFilter)}

filteredRows ==
    Pick(adminRows, Shown(admin.searchTerm, admin.statusFilter, admin.submissionFilter))

\* The counts of the statistics cards the claims speak of.
stats ==
    [total |-> Len(adminRows),
     inProgress |-> Len(SelectSeq(adminRows, LAMBDA r : r.status = InProgress)),
     completed |-> Len(SelectSeq(adminRows, AllSubmitted)),
     employeeCompleted |-> Len(SelectSeq(adminRows, LAMBDA r : r.employeeSubmitted)),
     supervisorCompleted |-> Len(SelectSeq(adminRows, LAMBDA r : r.supervisorSubmitted))]

\* The options of the status dropdown besides "All".
uniqueStatuses == {adminRows[i].status : i \in DOMAIN adminRows}

\* The texts typed into the search box: one that matches every row, one
\* that matches the rows with a proposed reviewer, one that matches none.
SearchTerms == { <<>>, <<"C","a","r">>, <<"z">> }

SubmissionFilters == {"All", "All Completed", "Has Incomplete"}

Admin_SetSearchTerm ==
    /\ AdminRendered
    /\ \E t \in SearchTerms : admin' = [admin EXCEPT !.searchTerm = t]
    /\ UNCHANGED <<fixed, gcuLocals, store, responses, form, sup, act, callLog, alertMsg,
                   thrown, pc>>

Admin_SetStatusFilter ==
    /\ AdminRendered
    /\ \E s \in {AllOption} \cup uniqueStatuses :
          admin' = [admin EXCEPT !.statusFilter = s]
    /\ UNCHANGED <<fixed, gcuLocals, store, responses, form, sup, act, callLog, alertMsg,
                   thrown, pc>>

Admin_SetSubmissionFilter ==
    /\ AdminRendered
    /\ \E f \in SubmissionFilters : admin' = [admin EXCEPT !.submissionFilter = f]
    /\ UNCHANGED <<fixed, gcuLocals, store, responses, form, sup, act, callLog, alertMsg,
                   thrown, pc>>

\* An item of the assignments list at position i, at one stage of its life.
StatsItem(i, status, self, supv, rev, refs) ==
    [Id |-> Some(i), Status |-> status,
     SelfEvalSubmitted |-> self, SupervisorSubmitted |-> Some(supv),
     ReviewerSubmitted |-> Some(rev),
     Employee |-> BobRef, Supervisor |-> JaneRef,
     OptionalReviewer |-> refs[1], ProposedReviewer |-> refs[2],
     SendOptionalEmail |-> None]

\* <<OptionalReviewer, ProposedReviewer>>: none proposed, the proposed
\* reviewer added, and another optional reviewer than the proposed one.
ReviewerPairs == { <<None, None>>, <<CarolRef, CarolRef>>, <<BobRef, CarolRef>> }

StatsItems(i) ==
    { StatsItem(i, status, self, supv, rev, refs) :
        status \in {None, Some(InProgress)}, self \in {None, Some(TRUE)},
        supv \in BOOLEAN, rev \in BOOLEAN, refs \in ReviewerPairs }

StatsStores ==
    UNION { {s \in [1..n -> UNION {StatsItems(i) : i \in 1..n}] :
                \A i \in 1..n : s[i] \in StatsItems(i)} : n \in 0..MaxRows }

InitAdminStats ==
    /\ screen = "admin"
    /\ pc = "admin_mount"
    /\ store \in StatsStores
    /\ form = NoForm
    /\ responses = <<>>
    /\ signedIn = [Id |-> Some(21), Email |-> Some(KaneMixed)]
    /\ sup = NoSup
    /\ admin = NoAdmin
    /\ act = NoAct
    /\ callLog = <<>>
    /\ alertMsg = None
    /\ app = NoApp
    /\ heap = <<>>
    /\ resolutions = <<>>
    /\ attempt = 0
    /\ lastError = None
    /\ u = [threw |-> FALSE, value |-> None, message |-> <<>>]
    /\ userCalls = 0
    /\ waited = 0
    /\ ret = [ok |-> "idle", err |-> "idle"]
    /\ me = None
    /\ ids = <<>>
    /\ items = <<>>
    /\ fetchLog = <<>>
    /\ thrown = None
    /\ pending = <<>>
    /\ loading = TRUE
    /\ error = None
    /\ selected = None

NextAdminStats ==
    \/ Admin_Mount
    \/ Admin_Query
    \/ Admin_Retry
    \/ Admin_SetSearchTerm
    \/ Admin_SetStatusFilter
    \/ Admin_SetSubmissionFilter

SpecAdminStats == InitAdminStats /\ [][NextAdminStats]_vars

\* The positions of the loaded assignments that are sent with reminders.
InIncompleteSet ==
    {i \in DOMAIN admin.assignments :
        \E k \in DOMAIN incompleteAssignments :
            incompleteAssignments[k].Id = admin.assignments[i].Id}

\* The positions of the loaded assignments the statistics count as completed.
CountedCompleted == {i \in DOMAIN adminRows : AllSubmitted(adminRows[i])}

(* C28: for every loaded assignment list in the admin dashboard, each
   assignment is either counted as fully completed by the statistics or
   included in the incomplete set sent with reminders, never both and never
   neither, so completed count + incomplete count = total; and under the
   search text and status filter in force, the "All Completed" and
   "Has Incomplete" submission filters select complementary sets of the rows
   that "All Submissions" shows. *)
C28_CompletedOrIncomplete ==
    AdminRendered =>
        /\ \A i \in DOMAIN admin.assignments :
              (i \in CountedCompleted) # (i \in InIncompleteSet)
        /\ stats.completed = Cardinality(CountedCompleted)
        /\ stats.completed + Len(incompleteAssignments) = stats.total
        /\ LET all  == Shown(admin.searchTerm, admin.statusFilter, "All")
               done == Shown(admin.searchTerm, admin.statusFilter, "All Completed")
               open == Shown(admin.searchTerm, admin.statusFilter, "Has Incomplete")
           IN  /\ done \cup open = all
               /\ done \cap open = {}
        /\ admin.submissionFilter = "All Completed" =>
              \A k \in DOMAIN filteredRows : AllSubmitted(filteredRows[k])
        /\ admin.submissionFilter = "Has Incomplete" =>
              \A k \in DOMAIN filteredRows : ~AllSubmitted(filteredRows[k])

\* Two assignments are loaded, one completed and one that waits for the
\* added reviewer only; the search text hides neither and the table shows
\* the incomplete one.
C28_Witness ==
    /\ AdminRendered
    /\ Len(admin.assignments) = 2
    /\ stats.completed = 1
    /\ Len(incompleteAssignments) = 1
    /\ IsTrue(incompleteAssignments[1].SelfEvalSubmitted)
    /\ IsTrue(incompleteAssignments[1].SupervisorSubmitted)
    /\ admin.searchTerm = <<"C","a","r">>
    /\ admin.submissionFilter = "Has Incomplete"
    /\ Len(filteredRows) = 1
    /\ filteredRows[1].id = incompleteAssignments[1].Id

====
